---- MODULE Spec2Model ----
(***************************************************************************)
(* n01d-forge: the burn / erase / verify pipeline of src-tauri/src/main.rs *)
(* and src-tauri/src/secure_erase.rs as a state machine.                   *)
(*                                                                         *)
(* Every Tauri command is an async fn spawned on a multi-threaded runtime, *)
(* so invocations interleave.  One step of the model is one access to the  *)
(* shared AppState (an atomic load or store, one locked label assignment)  *)
(* or one I/O operation on the image, the device or an external tool;      *)
(* purely local computation is folded into the step that follows it.       *)
(***************************************************************************)
EXTENDS Integers, Sequences, FiniteSets, TLC

\* ------------------------------------------------------------------ bounds
\* Sizes are scaled: one unit stands for 2 MiB, a byte has ByteMax + 1 values.
BufSize == 2        \* the 4 MiB copy / erase / verify buffer
HashBufSize == 1    \* the 1 MiB buffer of calculate_hash
ImageLen == 3       \* length of the image file
DevSize == 4        \* size of the target device
ByteMax == 3        \* the largest byte value (stands for 0xFF)
SmallLen == 1       \* length of a second, shorter file
MaxCustom == 2      \* the largest n of CustomRandom(n)
MaxPlain == 2       \* the longest plaintext given to encrypt_aes256gcm
TagLen == 4         \* length of the AES-GCM authentication tag

\* The invocations: two of the commands that work on files and devices, and
\* one progress poll.
Workers == {"t1", "t2"}

Poller == "t3"

Tasks == Workers \cup {Poller}

Min(a, b) == IF a < b THEN a ELSE b

\* ------------------------------------------------------------------ files
ImagePath == "image.iso"
MissingPath == "missing.iso"
SmallPath == "small.bin"
Paths == {ImagePath, MissingPath}

\* The image: bytes 1, 2, 1, ... (never the all-zero or all-ones byte).
ImageData == [i \in 1..ImageLen |-> 1 + ((i + 1) % 2)]

\* A second, shorter file: SmallLen bytes.
SmallData == [i \in 1..SmallLen |-> 1]

PathExists(path) == path \in {ImagePath, SmallPath}

FileData(path) ==
    IF path = ImagePath THEN ImageData
    ELSE IF path = SmallPath THEN SmallData
    ELSE << >>

\* ------------------------------------------------------------- stage labels
OpNone == ""
OpPreparing == "Preparing..."
OpErasing == "Secure erasing drive..."
OpWriting == "Writing image to drive..."
OpEncrypting == "Setting up encryption..."
OpBootloader == "Configuring bootloader..."
OpVerifying == "Verifying write..."
OpSyncing == "Syncing..."
OpComplete == "Complete"

\* ------------------------------------------------------------------ digest
\* Sha256 as a streaming, collision-free fold: feeding the chunks of a
\* stream one after another yields the digest of the whole stream.
HashNew == 0

RECURSIVE HashUpdate(_, _)
HashUpdate(h, bytes) ==
    IF bytes = << >> THEN h
    ELSE HashUpdate(h * (ByteMax + 2) + Head(bytes) + 1, Tail(bytes))

\* hex::encode(hasher.finalize()): lowercase hex, one-to-one on digests.
HexEncode(h) == <<"hex", h>>

\* ------------------------------------------------------------------ device
\* write(2) at offset pos: the bytes that fit replace the device's.
DevWrite(dev, pos, bytes) ==
    [i \in 1..Len(dev) |->
        IF i > pos /\ i <= pos + Len(bytes) THEN bytes[i - pos] ELSE dev[i]]

\* read(2) of up to n bytes at offset pos (empty at the end of the device).
DevRead(dev, pos, n) == SubSeq(dev, pos + 1, Min(Len(dev), pos + n))

\* ------------------------------------------------------------------- state
VARIABLES
    is_burning,         \* AppState.is_burning
    progress,           \* AppState.progress
    total_bytes,        \* AppState.total_bytes
    current_operation,  \* AppState.current_operation
    cancel_flag,        \* AppState.cancel_flag
    device,             \* contents of the target device
    pc,                 \* per invocation: where it stands ("idle": none)
    cmd,                \* per invocation: the command
    config,             \* per invocation: the command's arguments
    loc,                \* per invocation: the locals of the running function
    result,             \* per invocation: what the last command returned
    touched,            \* history: the invocation opened / wrote / read the device
    io_failed,          \* history: a step of the invocation failed
    target_os,          \* the platform the program was built for
    op_lock,            \* holder of the lock of current_operation
    idle_cancel,        \* history: cancel_flag was set when no burn_image run
                        \* was active, and no run has cleared it since
    window_cancel       \* history, per invocation: cancel_burn set cancel_flag
                        \* after the run had set the in-progress flag and
                        \* before it had finished its write stage

shared == <<is_burning, progress, total_bytes, current_operation, cancel_flag>>

vars == <<is_burning, progress, total_bytes, current_operation, cancel_flag,
          device, pc, cmd, config, loc, result, touched, io_failed,
          idle_cancel, window_cancel, target_os, op_lock>>

\* Option::None
None == [none |-> TRUE]

\* Nobody holds the lock of current_operation.
NoHolder == "nobody"

NoResult == [kind |-> "none"]

Err(msg) == [kind |-> "err", msg |-> msg]

NoLoc == [image_size |-> 0, bytes_written |-> 0, wbuf |-> << >>, fpos |-> 0,
          size |-> 0, passes |-> << >>, original_hash |-> "",
          hasher |-> HashNew, hashed |-> << >>, bytes_read |-> 0,
          hash_verification |-> None, pending |-> NoResult,
          progress |-> 0, total |-> 0, passes_done |-> 0,
          key1 |-> NoResult, key2 |-> NoResult,
          encrypted |-> NoResult, decrypted |-> NoResult]

NoConfig == None

\* secure_erase.rs 190, 204, 217: the platforms get_device_size is written for.
TargetOs == {"linux", "macos", "windows"}

\* The pipelines are started on the Linux build.
Init ==
    /\ is_burning = FALSE
    /\ progress = 0
    /\ total_bytes = 0
    /\ current_operation = OpNone
    /\ cancel_flag = FALSE
    /\ device \in {[i \in 1..DevSize |-> 0]}
    /\ pc = [t \in Tasks |-> "idle"]
    /\ cmd = [t \in Tasks |-> "none"]
    /\ config = [t \in Tasks |-> NoConfig]
    /\ loc = [t \in Tasks |-> NoLoc]
    /\ result = [t \in Tasks |-> NoResult]
    /\ touched = [t \in Tasks |-> FALSE]
    /\ io_failed = [t \in Tasks |-> FALSE]
    /\ idle_cancel = FALSE
    /\ window_cancel = [t \in Tasks |-> FALSE]
    /\ target_os = "linux"
    /\ op_lock = NoHolder

\* ----------------------------------------------------------------- helpers
\* The invocation moves on to p with locals l.
Local(t, p, l) ==
    /\ pc' = [pc EXCEPT ![t] = p]
    /\ loc' = [loc EXCEPT ![t] = l]
    /\ UNCHANGED <<cmd, config, result>>

Goto(t, p) == Local(t, p, loc[t])

\* The invocation returns r to its caller: arguments and locals are dropped.
Return(t, r) ==
    /\ pc' = [pc EXCEPT ![t] = "idle"]
    /\ result' = [result EXCEPT ![t] = r]
    /\ loc' = [loc EXCEPT ![t] = NoLoc]
    /\ config' = [config EXCEPT ![t] = NoConfig]
    /\ cmd' = [cmd EXCEPT ![t] = "none"]

\* History: whether this step touched the device, whether it failed.
Note(t, touch, fail) ==
    /\ touched' = [touched EXCEPT ![t] = @ \/ touch]
    /\ io_failed' = [io_failed EXCEPT ![t] = @ \/ fail]
    /\ UNCHANGED <<idle_cancel, window_cancel, target_os, op_lock>>

\* ------------------------------------------------------------------ inputs
EncryptionTypes == {"luks", "veracrypt", "aes256"}

EncryptionChoices ==
    {None} \cup [enabled : BOOLEAN, encryption_type : EncryptionTypes]

EraseMethodNames == {"zeros", "random", "dod", "other"}

\* Every BurnConfig over the small field domains.
BurnConfigs ==
    [image_path : Paths, verify_after_write : BOOLEAN,
     secure_erase_before : BOOLEAN, erase_method : EraseMethodNames,
     encryption : EncryptionChoices]

\* (mutant) the guard of the label outlives the block.
SetLabelHeld(t, label) ==
    /\ op_lock = NoHolder
    /\ current_operation' = label
    /\ op_lock' = t

\* main.rs 312-315 and the like: { let mut op = lock().await; *op = label; }
\* lock() returns when nobody holds the lock, and the guard is dropped at
\* the end of the block, before the next thing the function does.
SetLabel(t, label) ==
    /\ op_lock = NoHolder
    /\ current_operation' = label
    /\ op_lock' = NoHolder

\* A tauri::command is invoked: the future is spawned and will run.  Each
\* member of Tasks is one invocation.
Invoke(t, command, args) ==
    /\ pc[t] = "idle"
    /\ result[t] = NoResult
    /\ pc' = [pc EXCEPT ![t] =
                CASE command = "burn_image" -> "b_check"
                  [] command = "secure_erase" -> "s_check"
                  [] command = "get_burn_progress" -> "p_progress"
                  [] command = "test_key_derivation" -> "k_first"
                  [] command = "test_aes_encryption" -> "a_encrypt"
                  [] OTHER -> "h_open"]
    /\ cmd' = [cmd EXCEPT ![t] = command]
    /\ config' = [config EXCEPT ![t] = args]
    /\ loc' = [loc EXCEPT ![t] = NoLoc]
    /\ result' = [result EXCEPT ![t] = NoResult]
    /\ touched' = [touched EXCEPT ![t] = FALSE]
    /\ io_failed' = [io_failed EXCEPT ![t] = FALSE]
    /\ UNCHANGED <<shared, device, idle_cancel, window_cancel, target_os, op_lock>>

\* The invocation is an accepted burn_image: it has passed the test of
\* is_burning and has not returned.
Active(t) == cmd[t] = "burn_image" /\ pc[t] \notin {"idle", "b_check"}

\* cancel_burn: one store, always Ok(()).
\* The run has set the in-progress flag (main.rs 305) and has not yet
\* finished its write stage (363-367).
CancelWindow(t) ==
    /\ cmd[t] = "burn_image"
    /\ pc[t] \in {"b_clr_cancel", "b_rst_progress", "b_label_prep",
                  "b_validate", "b_label_erase", "b_cancel1", "b_label_write",
                  "e_size", "e_open", "e_seek", "e_write", "e_done", "e_sync",
                  "w_open", "w_check", "w_write", "w_progress", "w_flush",
                  "w_drop"}

CancelBurn ==
    /\ cancel_flag' = TRUE
    /\ idle_cancel' = IF \E t \in Tasks : Active(t) THEN idle_cancel ELSE TRUE
    /\ window_cancel' = [t \in Tasks |->
                            window_cancel[t] \/ (~cancel_flag /\ CancelWindow(t))]
    /\ UNCHANGED <<target_os, op_lock>>
    /\ UNCHANGED <<is_burning, progress, total_bytes, current_operation,
                   device, pc, cmd, config, loc, result, touched, io_failed>>

\* ------------------------------------------------------ burn_image: start
\* (mutant) the resets of 306-307 done before the test of is_burning.
BurnCheckAfterReset(t) ==
    /\ pc[t] = "b_check"
    /\ cancel_flag' = FALSE
    /\ progress' = 0
    /\ IF is_burning
       THEN Return(t, Err("A burn operation is already in progress"))
       ELSE Goto(t, "b_set")
    /\ UNCHANGED <<is_burning, total_bytes, current_operation, device,
                   touched, io_failed, idle_cancel, window_cancel, target_os, op_lock>>

\* main.rs 301-303: the load of is_burning; true rejects the call.
BurnCheck(t) ==
    /\ pc[t] = "b_check"
    /\ IF is_burning
       THEN Return(t, Err("A burn operation is already in progress"))
       ELSE Goto(t, "b_set")
    /\ UNCHANGED <<shared, device, touched, io_failed, idle_cancel, window_cancel, target_os, op_lock>>

\* main.rs 305: the store of is_burning, a step of its own after the load.
BurnSet(t) ==
    /\ pc[t] = "b_set"
    /\ is_burning' = TRUE
    /\ Goto(t, "b_clr_cancel")
    /\ UNCHANGED <<progress, total_bytes, current_operation, cancel_flag,
                   device, touched, io_failed, idle_cancel, window_cancel, target_os, op_lock>>

\* (mutant) the run starts without clearing cancel_flag.
BurnKeepCancel(t) ==
    /\ pc[t] = "b_clr_cancel"
    /\ Goto(t, "b_rst_progress")
    /\ UNCHANGED <<shared, device, touched, io_failed, idle_cancel, window_cancel, target_os, op_lock>>

\* main.rs 306
BurnClearCancel(t) ==
    /\ pc[t] = "b_clr_cancel"
    /\ cancel_flag' = FALSE
    /\ idle_cancel' = FALSE
    /\ UNCHANGED <<window_cancel, target_os, op_lock>>
    /\ Goto(t, "b_rst_progress")
    /\ UNCHANGED <<is_burning, progress, total_bytes, current_operation,
                   device, touched, io_failed>>

\* (mutant) the run starts without resetting progress.
BurnKeepProgress(t) ==
    /\ pc[t] = "b_rst_progress"
    /\ Goto(t, "b_label_prep")
    /\ UNCHANGED <<shared, device, touched, io_failed, idle_cancel, window_cancel, target_os, op_lock>>

\* main.rs 307
BurnResetProgress(t) ==
    /\ pc[t] = "b_rst_progress"
    /\ progress' = 0
    /\ Goto(t, "b_label_prep")
    /\ UNCHANGED <<is_burning, total_bytes, current_operation, cancel_flag,
                   device, touched, io_failed, idle_cancel, window_cancel, target_os, op_lock>>

\* main.rs 312-315
BurnLabelPreparing(t) ==
    /\ pc[t] = "b_label_prep"
    /\ SetLabel(t, OpPreparing)
    /\ Goto(t, "b_validate")
    /\ UNCHANGED <<is_burning, progress, total_bytes, cancel_flag,
                   device, touched, io_failed, idle_cancel, window_cancel, target_os>>

\* (mutant) the error is returned with is_burning left set.
ValidateFailureLeaks(t, msg) ==
    /\ UNCHANGED is_burning
    /\ Return(t, Err(msg))

\* main.rs 320-321 and 325-328: a failed validation clears is_burning and
\* returns the error.
ValidateFailure(t, msg) ==
    /\ is_burning' = FALSE
    /\ Return(t, Err(msg))

\* main.rs 317-331: the image must exist and its metadata be readable;
\* otherwise total_bytes is stored.
BurnValidate(t) ==
    /\ pc[t] = "b_validate"
    /\ \/ /\ ~PathExists(config[t].image_path)
          /\ ValidateFailure(t, "Image file not found")
          /\ Note(t, FALSE, FALSE)
          /\ UNCHANGED total_bytes
       \/ /\ PathExists(config[t].image_path)
          /\ ValidateFailure(t, "Failed to read image")
          /\ Note(t, FALSE, TRUE)
          /\ UNCHANGED total_bytes
       \/ /\ PathExists(config[t].image_path)
          /\ total_bytes' = Len(FileData(config[t].image_path))
          /\ Local(t, IF config[t].secure_erase_before
                      THEN "b_label_erase" ELSE "b_cancel1",
                   [loc[t] EXCEPT
                      !.image_size = Len(FileData(config[t].image_path))])
          /\ Note(t, FALSE, FALSE)
          /\ UNCHANGED is_burning
    /\ UNCHANGED <<progress, current_operation, cancel_flag, device>>

\* ------------------------------------------------------------ erase engine
\* secure_erase.rs 14-26: enum SecureEraseMethod.
Zeros == [variant |-> "Zeros"]

Random == [variant |-> "Random"]

DoD == [variant |-> "DoD"]

Gutmann == [variant |-> "Gutmann"]

CustomRandom(n) == [variant |-> "CustomRandom", n |-> n]

SecureEraseMethods ==
    {Zeros, Random, DoD, Gutmann} \cup {CustomRandom(n) : n \in 0..MaxCustom}

\* secure_erase.rs 29-37
passes(method) ==
    CASE method.variant = "Zeros" -> 1
      [] method.variant = "Random" -> 1
      [] method.variant = "DoD" -> 3
      [] method.variant = "Gutmann" -> 35
      [] OTHER -> method.n

\* (mutant) the name is matched whatever its case.
EraseMethodAnyCase(name) ==
    CASE name \in {"zeros", "Zeros"} -> Zeros
      [] name \in {"random", "Random"} -> Random
      [] name \in {"dod", "DoD"} -> DoD
      [] name \in {"gutmann", "Gutmann"} -> Gutmann
      [] OTHER -> Zeros

\* main.rs 340-346: the method burn_image takes for a name.
EraseMethodOf(name) ==
    CASE name = "zeros" -> Zeros
      [] name = "random" -> Random
      [] name = "dod" -> DoD
      [] name = "gutmann" -> Gutmann
      [] OTHER -> Zeros

\* main.rs 685-691: the method secure_erase takes for a name.
CommandEraseMethodOf(name) ==
    CASE name = "zeros" -> Zeros
      [] name = "random" -> Random
      [] name = "dod" -> DoD
      [] name = "gutmann" -> Gutmann
      [] OTHER -> Zeros

ZeroByte == 0

OnesByte == ByteMax

\* What thread_rng().fill_bytes may put in a byte.
RandomBytes == {1, ByteMax}

\* secure_erase.rs 153-187: passes 0-3 and 31-34 random, 4-30 fixed motifs.
GutmannMotifs ==
    <<<<85, 85, 85>>, <<170, 170, 170>>, <<146, 73, 36>>, <<73, 36, 146>>,
      <<36, 146, 73>>, <<0, 0, 0>>, <<17, 17, 17>>, <<34, 34, 34>>,
      <<51, 51, 51>>, <<68, 68, 68>>, <<85, 85, 85>>, <<102, 102, 102>>,
      <<119, 119, 119>>, <<136, 136, 136>>, <<153, 153, 153>>,
      <<170, 170, 170>>, <<187, 187, 187>>, <<204, 204, 204>>,
      <<221, 221, 221>>, <<238, 238, 238>>, <<255, 255, 255>>,
      <<146, 73, 36>>, <<73, 36, 146>>, <<36, 146, 73>>, <<109, 182, 219>>,
      <<182, 219, 109>>, <<219, 109, 182>>>>

\* (mutant) the last fixed motif is missing from the table.
GutmannPatternShort(pass) ==
    IF pass >= 4 /\ pass < 30
    THEN [type |-> "Fixed", p |-> GutmannMotifs[pass - 3]]
    ELSE [type |-> "Random"]

get_gutmann_pattern(pass) ==
    IF pass >= 4 /\ pass <= 30
    THEN [type |-> "Fixed", p |-> GutmannMotifs[pass - 3]]
    ELSE [type |-> "Random"]

\* secure_erase.rs 64-93: the passes of a method, in order: the pattern of
\* each and whether the code seeks to offset 0 before it.
PassPlan(method) ==
    CASE method.variant = "Zeros" ->
           <<[pattern |-> [type |-> "Zeros"], seek |-> FALSE]>>
      [] method.variant = "Random" ->
           <<[pattern |-> [type |-> "Random"], seek |-> FALSE]>>
      [] method.variant = "DoD" ->
           <<[pattern |-> [type |-> "Zeros"], seek |-> FALSE],
             [pattern |-> [type |-> "Ones"], seek |-> TRUE],
             [pattern |-> [type |-> "Random"], seek |-> TRUE]>>
      [] method.variant = "Gutmann" ->
           [i \in 1..35 |-> [pattern |-> get_gutmann_pattern(i - 1), seek |-> TRUE]]
      [] OTHER ->
           [i \in 1..method.n |-> [pattern |-> [type |-> "Random"], seek |-> TRUE]]

\* secure_erase.rs 119-142: the chunks write_pattern may hand to write_all
\* for n bytes starting at buffer offset 0.
PatternChunks(pattern, n) ==
    CASE pattern.type = "Zeros" -> {[i \in 1..n |-> ZeroByte]}
      [] pattern.type = "Ones" -> {[i \in 1..n |-> OnesByte]}
      [] pattern.type = "Random" -> [1..n -> RandomBytes]
      [] OTHER -> {[i \in 1..n |-> pattern.p[((i - 1) % 3) + 1]]}

\* (mutant) burn_image goes on to the write stage whatever the erase
\* returned.
EraseReturnIgnored(t, r) ==
    IF cmd[t] = "burn_image"
    THEN Goto(t, "b_cancel1")
    ELSE IF cmd[t] = "secure_erase"
    THEN Local(t, "s_clear", [loc[t] EXCEPT !.pending = r])
    ELSE Return(t, r)

\* secure_erase_drive returns r: to burn_image's `?` (an Err leaves the
\* command at once) or to secure_erase's `result`.
EraseReturn(t, r) ==
    IF cmd[t] = "burn_image"
    THEN IF r.kind = "err" THEN Return(t, r) ELSE Goto(t, "b_cancel1")
    ELSE IF cmd[t] = "secure_erase"
    THEN Local(t, "s_clear", [loc[t] EXCEPT !.pending = r])
    ELSE Return(t, r)

\* After a pass (or the open): the next pass's seek or first chunk, or sync.
ErasePass(t, l) ==
    IF l.passes = << >> THEN Local(t, "e_sync", l)
    ELSE IF Head(l.passes).seek THEN Local(t, "e_seek", l)
    ELSE IF l.bytes_written < l.size THEN Local(t, "e_write", l)
    ELSE Local(t, "e_done", l)

\* secure_erase.rs 189-236: the size blockdev (190-202) or PowerShell
\* (217-235) reports; the macOS branch (204-215) runs diskutil, drops its
\* output and returns Ok(0).
get_device_size ==
    IF target_os = "macos" THEN 0 ELSE Len(device)

\* secure_erase.rs 56: let size = get_device_size(device)?
EraseSize(t) ==
    /\ pc[t] = "e_size"
    /\ \/ /\ Local(t, "e_open", [loc[t] EXCEPT !.size = get_device_size])
          /\ Note(t, FALSE, FALSE)
       \/ /\ EraseReturn(t, Err("Failed to get device size"))
          /\ Note(t, FALSE, TRUE)
    /\ UNCHANGED <<shared, device>>

\* secure_erase.rs 59-62: the device is opened for writing at offset 0.
EraseOpen(t) ==
    /\ pc[t] = "e_open"
    /\ \/ /\ ErasePass(t, [loc[t] EXCEPT !.fpos = 0, !.bytes_written = 0])
          /\ Note(t, TRUE, FALSE)
       \/ /\ EraseReturn(t, Err("Failed to open device"))
          /\ Note(t, FALSE, TRUE)
    /\ UNCHANGED <<shared, device>>

\* (mutant) the pass starts where the one before it ended.
EraseSeekNowhere(t) ==
    /\ pc[t] = "e_seek"
    /\ \/ /\ LET l == [loc[t] EXCEPT !.bytes_written = 0] IN
             IF l.bytes_written < l.size
             THEN Local(t, "e_write", l) ELSE Local(t, "e_done", l)
          /\ Note(t, TRUE, FALSE)
       \/ /\ EraseReturn(t, Err("Seek failed"))
          /\ Note(t, TRUE, TRUE)
    /\ UNCHANGED <<shared, device>>

\* secure_erase.rs 74, 76, 82, 89: seek(SeekFrom::Start(0)) before a pass.
EraseSeek(t) ==
    /\ pc[t] = "e_seek"
    /\ \/ /\ LET l == [loc[t] EXCEPT !.fpos = 0, !.bytes_written = 0] IN
             IF l.bytes_written < l.size
             THEN Local(t, "e_write", l) ELSE Local(t, "e_done", l)
          /\ Note(t, TRUE, FALSE)
       \/ /\ EraseReturn(t, Err("Seek failed"))
          /\ Note(t, TRUE, TRUE)
    /\ UNCHANGED <<shared, device>>

\* (mutant) a chunk whose write failed is written again.
EraseWriteRetry(t) ==
    /\ pc[t] = "e_write"
    /\ LET l == loc[t]
           to_write == Min(BufSize, l.size - l.bytes_written)
       IN \E chunk \in PatternChunks(Head(l.passes).pattern, to_write) :
            \/ /\ device' = DevWrite(device, l.fpos, chunk)
               /\ LET m == [l EXCEPT !.fpos = @ + to_write,
                                     !.bytes_written = @ + to_write]
                  IN IF m.bytes_written < m.size
                     THEN Local(t, "e_write", m) ELSE Local(t, "e_done", m)
               /\ Note(t, TRUE, FALSE)
            \/ /\ \E k \in 0..(to_write - 1) :
                    device' = DevWrite(device, l.fpos, SubSeq(chunk, 1, k))
               /\ Local(t, "e_write", l)
               /\ Note(t, TRUE, TRUE)
    /\ UNCHANGED shared

\* secure_erase.rs 136-148: one chunk of the pass, min(BUFFER_SIZE, rest)
\* bytes; a failed write_all may have written a part of it.
EraseWrite(t) ==
    /\ pc[t] = "e_write"
    /\ LET l == loc[t]
           to_write == Min(BufSize, l.size - l.bytes_written)
       IN \E chunk \in PatternChunks(Head(l.passes).pattern, to_write) :
            \/ /\ device' = DevWrite(device, l.fpos, chunk)
               /\ LET m == [l EXCEPT !.fpos = @ + to_write,
                                     !.bytes_written = @ + to_write]
                  IN IF m.bytes_written < m.size
                     THEN Local(t, "e_write", m) ELSE Local(t, "e_done", m)
               /\ Note(t, TRUE, FALSE)
            \/ /\ \E k \in 0..(to_write - 1) :
                    device' = DevWrite(device, l.fpos, SubSeq(chunk, 1, k))
               /\ EraseReturn(t, Err("Write failed"))
               /\ Note(t, TRUE, TRUE)
    /\ UNCHANGED shared

\* secure_erase.rs 150: write_pattern returns Ok; on to the next pass.
EraseDone(t) ==
    /\ pc[t] = "e_done"
    /\ ErasePass(t, [loc[t] EXCEPT !.passes = Tail(@), !.bytes_written = 0,
                                   !.passes_done = @ + 1])
    /\ UNCHANGED <<shared, device, touched, io_failed, idle_cancel, window_cancel, target_os, op_lock>>

\* (mutant) the outcome of sync_all is dropped.
EraseSyncUnchecked(t) ==
    /\ pc[t] = "e_sync"
    /\ \/ /\ EraseReturn(t, [kind |-> "unit"])
          /\ Note(t, TRUE, FALSE)
       \/ /\ EraseReturn(t, [kind |-> "unit"])
          /\ Note(t, TRUE, TRUE)
    /\ UNCHANGED <<shared, device>>

\* secure_erase.rs 95-98: sync_all, then Ok(()).
EraseSync(t) ==
    /\ pc[t] = "e_sync"
    /\ \/ /\ EraseReturn(t, [kind |-> "unit"])
          /\ Note(t, TRUE, FALSE)
       \/ /\ EraseReturn(t, Err("Sync failed"))
          /\ Note(t, TRUE, TRUE)
    /\ UNCHANGED <<shared, device>>

\* ------------------------------------------------------ burn_image: stages
\* main.rs 334-348: the label, then secure_erase_drive with the method.
BurnLabelErase(t) ==
    /\ pc[t] = "b_label_erase"
    /\ SetLabel(t, OpErasing)
    /\ Local(t, "e_size", [loc[t] EXCEPT
           !.passes = PassPlan(EraseMethodOf(config[t].erase_method))])
    /\ UNCHANGED <<is_burning, progress, total_bytes, cancel_flag,
                   device, touched, io_failed, idle_cancel, window_cancel, target_os>>

\* (mutant) the encryption stage is entered whenever settings are present.
BurnCancelCheckAnySettings(t) ==
    /\ pc[t] \in {"b_cancel1", "b_cancel2"}
    /\ IF cancel_flag THEN Goto(t, "b_abort")
       ELSE IF pc[t] = "b_cancel1" THEN Goto(t, "b_label_write")
       ELSE IF config[t].encryption # None THEN Goto(t, "b_label_enc")
       ELSE Goto(t, "b_label_boot")
    /\ UNCHANGED <<shared, device, touched, io_failed, idle_cancel, window_cancel, target_os, op_lock>>

\* main.rs 352 and 370: the load of cancel_flag between two stages.
BurnCancelCheck(t) ==
    /\ pc[t] \in {"b_cancel1", "b_cancel2"}
    /\ IF cancel_flag THEN Goto(t, "b_abort")
       ELSE IF pc[t] = "b_cancel1" THEN Goto(t, "b_label_write")
       ELSE IF config[t].encryption # None /\ config[t].encryption.enabled
            THEN Goto(t, "b_label_enc")
       ELSE Goto(t, "b_label_boot")
    /\ UNCHANGED <<shared, device, touched, io_failed, idle_cancel, window_cancel, target_os, op_lock>>

\* main.rs 353-354 and 371-372
BurnAbort(t) ==
    /\ pc[t] = "b_abort"
    /\ is_burning' = FALSE
    /\ Return(t, Err("Operation cancelled"))
    /\ UNCHANGED <<progress, total_bytes, current_operation, cancel_flag,
                   device, touched, io_failed, idle_cancel, window_cancel, target_os, op_lock>>

\* main.rs 358-361
BurnLabelWrite(t) ==
    /\ pc[t] = "b_label_write"
    /\ SetLabel(t, OpWriting)
    /\ Goto(t, "w_open")
    /\ UNCHANGED <<is_burning, progress, total_bytes, cancel_flag,
                   device, touched, io_failed, idle_cancel, window_cancel, target_os>>

\* ---------------------------------------------------- write_image_to_drive
\* BufWriter::with_capacity(4 MiB): a chunk smaller than the spare room is
\* kept in the buffer; otherwise the buffer is flushed if the chunk does not
\* fit, and a chunk of at least the capacity goes straight to the device.
\* The bytes that reach the device now, and the buffer afterwards.
WriterOut(wbuf, chunk) ==
    LET spare == BufSize - Len(wbuf) IN
    IF Len(chunk) < spare THEN << >>
    ELSE (IF Len(chunk) > spare THEN wbuf ELSE << >>)
         \o (IF Len(chunk) >= BufSize THEN chunk ELSE << >>)

WriterBuf(wbuf, chunk) ==
    LET spare == BufSize - Len(wbuf) IN
    IF Len(chunk) < spare THEN wbuf \o chunk
    ELSE (IF Len(chunk) > spare THEN << >> ELSE wbuf)
         \o (IF Len(chunk) >= BufSize THEN << >> ELSE chunk)

\* An early return drops the BufWriter, which flushes what it holds and
\* ignores the outcome; r is returned once that is done.
WriteReturn(t, r) ==
    IF loc[t].wbuf = << >> THEN Return(t, r)
    ELSE Local(t, "w_drop", [loc[t] EXCEPT !.pending = r])

\* main.rs 446-458: both files are opened.
WriteOpen(t) ==
    /\ pc[t] = "w_open"
    /\ \/ /\ Local(t, "w_check", [loc[t] EXCEPT
                 !.bytes_written = 0, !.wbuf = << >>, !.fpos = 0])
          /\ Note(t, TRUE, FALSE)
       \/ /\ Return(t, Err("Failed to open image"))
          /\ Note(t, FALSE, TRUE)
       \/ /\ Return(t, Err("Failed to open target drive"))
          /\ Note(t, FALSE, TRUE)
    /\ UNCHANGED <<shared, device>>

\* (mutant) the loop looks at cancel_flag only once a chunk has been written.
WriteCheckAfterFirst(t) ==
    /\ pc[t] = "w_check"
    /\ \/ /\ cancel_flag /\ loc[t].bytes_written > 0
          /\ WriteReturn(t, Err("Operation cancelled"))
          /\ Note(t, FALSE, FALSE)
       \/ /\ ~cancel_flag \/ loc[t].bytes_written = 0
          /\ WriteReturn(t, Err("Read error"))
          /\ Note(t, FALSE, TRUE)
       \/ /\ ~cancel_flag \/ loc[t].bytes_written = 0
          /\ IF loc[t].bytes_written < Len(FileData(config[t].image_path))
             THEN Goto(t, "w_write") ELSE Goto(t, "w_flush")
          /\ Note(t, FALSE, FALSE)
    /\ UNCHANGED <<shared, device>>

\* main.rs 461-469: the load of cancel_flag, then the read of the next chunk.
WriteCheck(t) ==
    /\ pc[t] = "w_check"
    /\ \/ /\ cancel_flag
          /\ WriteReturn(t, Err("Operation cancelled"))
          /\ Note(t, FALSE, FALSE)
       \/ /\ ~cancel_flag
          /\ WriteReturn(t, Err("Read error"))
          /\ Note(t, FALSE, TRUE)
       \/ /\ ~cancel_flag
          /\ IF loc[t].bytes_written < Len(FileData(config[t].image_path))
             THEN Goto(t, "w_write") ELSE Goto(t, "w_flush")
          /\ Note(t, FALSE, FALSE)
    /\ UNCHANGED <<shared, device>>

\* main.rs 471-474: write_all of the chunk, then the local count.
WriteChunk(t) ==
    /\ pc[t] = "w_write"
    /\ LET l == loc[t]
           data == FileData(config[t].image_path)
           n == Min(BufSize, Len(data) - l.bytes_written)
           chunk == SubSeq(data, l.bytes_written + 1, l.bytes_written + n)
           out == WriterOut(l.wbuf, chunk)
       IN \/ /\ l.fpos + Len(out) <= Len(device)
             /\ device' = DevWrite(device, l.fpos, out)
             /\ Local(t, "w_progress", [l EXCEPT
                    !.wbuf = WriterBuf(l.wbuf, chunk),
                    !.fpos = @ + Len(out),
                    !.bytes_written = @ + n])
             /\ Note(t, out # << >>, FALSE)
          \/ /\ out # << >>
             /\ \E k \in 0..(Len(out) - 1) :
                  device' = DevWrite(device, l.fpos, SubSeq(out, 1, k))
             /\ Return(t, Err("Write error"))
             /\ Note(t, TRUE, TRUE)
    /\ UNCHANGED shared

\* main.rs 475
WriteProgress(t) ==
    /\ pc[t] = "w_progress"
    /\ progress' = loc[t].bytes_written
    /\ Goto(t, "w_check")
    /\ UNCHANGED <<is_burning, total_bytes, current_operation, cancel_flag,
                   device, touched, io_failed, idle_cancel, window_cancel, target_os, op_lock>>

\* main.rs 478-481: flush, then Ok(bytes_written) back in burn_image.
WriteFlush(t) ==
    /\ pc[t] = "w_flush"
    /\ LET l == loc[t] IN
       \/ /\ l.fpos + Len(l.wbuf) <= Len(device)
          /\ device' = DevWrite(device, l.fpos, l.wbuf)
          /\ Local(t, "b_cancel2", [l EXCEPT !.wbuf = << >>,
                                             !.fpos = @ + Len(l.wbuf)])
          /\ Note(t, l.wbuf # << >>, FALSE)
       \/ /\ l.wbuf # << >>
          /\ \E k \in 0..(Len(l.wbuf) - 1) :
               device' = DevWrite(device, l.fpos, SubSeq(l.wbuf, 1, k))
          /\ Return(t, Err("Flush error"))
          /\ Note(t, TRUE, TRUE)
    /\ UNCHANGED shared

\* Drop of the BufWriter on an early return: flush, outcome ignored.
WriteDrop(t) ==
    /\ pc[t] = "w_drop"
    /\ LET l == loc[t] IN
       \/ /\ device' = DevWrite(device, l.fpos, l.wbuf)
          /\ Note(t, TRUE, FALSE)
       \/ /\ \E k \in 0..(Len(l.wbuf) - 1) :
               device' = DevWrite(device, l.fpos, SubSeq(l.wbuf, 1, k))
          /\ Note(t, TRUE, TRUE)
    /\ Return(t, loc[t].pending)
    /\ UNCHANGED shared

\* -------------------------------------------------------- setup_encryption
\* What `cryptsetup luksFormat` leaves at the start of the device: the LUKS2
\* header, LuksHeaderLen bytes that are not the image's.
LuksHeaderLen == 1

LuksHeader == [i \in 1..LuksHeaderLen |-> OnesByte]

\* (mutant) setup_veracrypt_encryption does nothing and reports success.
BurnLabelEncryptVeraOk(t) ==
    /\ pc[t] = "b_label_enc"
    /\ SetLabel(t, OpEncrypting)
    /\ LET type == config[t].encryption.encryption_type IN
       IF type \in {"luks", "luks2"} THEN Goto(t, "luks_format")
       ELSE IF type = "veracrypt" THEN Goto(t, "b_label_boot")
       ELSE Return(t, Err("Unsupported encryption type"))
    /\ UNCHANGED <<is_burning, progress, total_bytes, cancel_flag,
                   device, touched, io_failed, idle_cancel, window_cancel, target_os>>

\* main.rs 376-383 and 488-496: the label, then the dispatch on the type.
BurnLabelEncrypt(t) ==
    /\ pc[t] = "b_label_enc"
    /\ SetLabel(t, OpEncrypting)
    /\ LET type == config[t].encryption.encryption_type IN
       IF type \in {"luks", "luks2"} THEN Goto(t, "luks_format")
       ELSE IF type = "veracrypt"
       THEN Return(t, Err("VeraCrypt encryption requires veracrypt CLI"))
       ELSE Return(t, Err("Unsupported encryption type"))
    /\ UNCHANGED <<is_burning, progress, total_bytes, cancel_flag,
                   device, touched, io_failed, idle_cancel, window_cancel, target_os>>

\* main.rs 516-536: cryptsetup luksFormat; a spawn failure or a non-zero
\* exit status is an Err.
LuksFormat(t) ==
    /\ pc[t] = "luks_format"
    /\ \/ /\ device' = DevWrite(device, 0, LuksHeader)
          /\ Goto(t, "luks_addkey")
          /\ Note(t, TRUE, FALSE)
       \/ /\ UNCHANGED device
          /\ Return(t, Err("Failed to run cryptsetup"))
          /\ Note(t, FALSE, TRUE)
       \/ /\ UNCHANGED device
          /\ Return(t, Err("LUKS format failed"))
          /\ Note(t, TRUE, TRUE)
    /\ UNCHANGED shared

\* main.rs 539-552: cryptsetup luksAddKey; only a failure to spawn or to wait
\* is an Err: the writes to its stdin are `.ok()` and its exit status is
\* never looked at.
LuksAddKey(t) ==
    /\ pc[t] = "luks_addkey"
    /\ \/ /\ Goto(t, "b_label_boot")
          /\ Note(t, TRUE, FALSE)
       \/ /\ Goto(t, "b_label_boot")
          /\ Note(t, TRUE, TRUE)
       \/ /\ Return(t, Err("Failed to add key"))
          /\ Note(t, FALSE, TRUE)
       \/ /\ Return(t, Err("Key add failed"))
          /\ Note(t, TRUE, TRUE)
    /\ UNCHANGED <<shared, device>>

\* main.rs 388-396 and 564-585: the label; configure_bootloader is Ok(()) for
\* every mode.
BurnLabelBootloader(t) ==
    /\ pc[t] = "b_label_boot"
    /\ SetLabel(t, OpBootloader)
    /\ IF config[t].verify_after_write
       THEN Goto(t, "b_label_verify") ELSE Goto(t, "b_label_sync")
    /\ UNCHANGED <<is_burning, progress, total_bytes, cancel_flag,
                   device, touched, io_failed, idle_cancel, window_cancel, target_os>>

\* ----------------------------------------------------- verify_written_image
\* main.rs 397-400
BurnLabelVerify(t) ==
    /\ pc[t] = "b_label_verify"
    /\ SetLabel(t, OpVerifying)
    /\ Goto(t, "v_hash_img")
    /\ UNCHANGED <<is_burning, progress, total_bytes, cancel_flag,
                   device, touched, io_failed, idle_cancel, window_cancel, target_os>>

\* A reader's loop: read up to n bytes, update the hasher, until read gives 0.
RECURSIVE HashStream(_, _, _)
HashStream(h, data, n) ==
    IF data = << >> THEN h
    ELSE HashStream(HashUpdate(h, SubSeq(data, 1, Min(n, Len(data)))),
                    SubSeq(data, Min(n, Len(data)) + 1, Len(data)), n)

\* main.rs 594-608: the image is hashed to its end.
VerifyHashImage(t) ==
    /\ pc[t] = "v_hash_img"
    /\ \/ /\ Local(t, "v_open_dev", [loc[t] EXCEPT !.original_hash =
                 HexEncode(HashStream(HashNew,
                                      FileData(config[t].image_path), BufSize))])
          /\ Note(t, FALSE, FALSE)
       \/ /\ Return(t, Err("Failed to open image"))
          /\ Note(t, FALSE, TRUE)
       \/ /\ Return(t, Err("Read error"))
          /\ Note(t, FALSE, TRUE)
    /\ UNCHANGED <<shared, device>>

\* main.rs 611-616
VerifyOpenDevice(t) ==
    /\ pc[t] = "v_open_dev"
    /\ \/ /\ Local(t, "v_rst", [loc[t] EXCEPT
                 !.hasher = HashNew, !.hashed = << >>, !.bytes_read = 0])
          /\ Note(t, TRUE, FALSE)
       \/ /\ Return(t, Err("Failed to open target"))
          /\ Note(t, FALSE, TRUE)
    /\ UNCHANGED <<shared, device>>

\* main.rs 630-637: the record verify_written_image returns.
VerifyResult(l) ==
    [algorithm |-> "sha256",
     hash |-> HexEncode(l.hasher),
     verified |-> (l.original_hash = HexEncode(l.hasher)),
     expected |-> [some |-> l.original_hash]]

\* The loop's test (main.rs 620), or its end.
VerifyLoop(t, l) ==
    IF l.bytes_read < l.image_size THEN Local(t, "v_read", l)
    ELSE Local(t, "b_label_sync", [l EXCEPT !.hash_verification = VerifyResult(l)])

\* main.rs 618
VerifyResetProgress(t) ==
    /\ pc[t] = "v_rst"
    /\ progress' = 0
    /\ VerifyLoop(t, loc[t])
    /\ UNCHANGED <<is_burning, total_bytes, current_operation, cancel_flag,
                   device, touched, io_failed, idle_cancel, window_cancel, target_os, op_lock>>

\* (mutant) a full buffer is read whatever is left of image_size.
ToReadUncapped(l) == BufSize

\* main.rs 621: min(buffer.len(), image_size - bytes_read)
ToRead(l) == Min(BufSize, l.image_size - l.bytes_read)

\* main.rs 622-626: one read of that many bytes of the device; 0 bytes (the
\* device's end) leave the loop.  (The BufReader may fetch more from the
\* device than it hands out; what it hands out is what is hashed.)
VerifyRead(t) ==
    /\ pc[t] = "v_read"
    /\ LET l == loc[t]
           got == DevRead(device, l.bytes_read, ToRead(l))
       IN \/ /\ IF got = << >>
                THEN Local(t, "b_label_sync",
                           [l EXCEPT !.hash_verification = VerifyResult(l)])
                ELSE Local(t, "v_progress", [l EXCEPT
                         !.hasher = HashUpdate(@, got),
                         !.hashed = @ \o got,
                         !.bytes_read = @ + Len(got)])
             /\ Note(t, TRUE, FALSE)
          \/ /\ Return(t, Err("Read error"))
             /\ Note(t, TRUE, TRUE)
    /\ UNCHANGED <<shared, device>>

\* main.rs 627
VerifyProgress(t) ==
    /\ pc[t] = "v_progress"
    /\ progress' = loc[t].bytes_read
    /\ VerifyLoop(t, loc[t])
    /\ UNCHANGED <<is_burning, total_bytes, current_operation, cancel_flag,
                   device, touched, io_failed, idle_cancel, window_cancel, target_os, op_lock>>

\* ---------------------------------------------------- burn_image: the end
\* main.rs 412-416
BurnLabelSync(t) ==
    /\ pc[t] = "b_label_sync"
    /\ SetLabel(t, OpSyncing)
    /\ Goto(t, "b_sync")
    /\ UNCHANGED <<is_burning, progress, total_bytes, cancel_flag,
                   device, touched, io_failed, idle_cancel, window_cancel, target_os>>

\* main.rs 419-422: `sync`, whose outcome is dropped by .ok().
BurnSync(t) ==
    /\ pc[t] = "b_sync"
    /\ Goto(t, "b_clear")
    /\ \/ Note(t, FALSE, FALSE)
       \/ Note(t, FALSE, TRUE)
    /\ UNCHANGED <<shared, device>>

\* main.rs 426
BurnClear(t) ==
    /\ pc[t] = "b_clear"
    /\ is_burning' = FALSE
    /\ Goto(t, "b_complete")
    /\ UNCHANGED <<progress, total_bytes, current_operation, cancel_flag,
                   device, touched, io_failed, idle_cancel, window_cancel, target_os, op_lock>>

\* (mutant) success stands for the verification's outcome.
BurnCompleteVerified(t) ==
    /\ pc[t] = "b_complete"
    /\ SetLabel(t, OpComplete)
    /\ Return(t, [kind |-> "ok",
                  success |-> (loc[t].hash_verification = None
                               \/ loc[t].hash_verification.verified),
                  message |-> "Image burned successfully",
                  hash_verification |-> loc[t].hash_verification,
                  bytes_written |-> loc[t].bytes_written])
    /\ UNCHANGED <<is_burning, progress, total_bytes, cancel_flag,
                   device, touched, io_failed, idle_cancel, window_cancel, target_os>>

\* main.rs 427-438: the last label, then Ok(BurnResult).
BurnComplete(t) ==
    /\ pc[t] = "b_complete"
    /\ SetLabel(t, OpComplete)
    /\ Return(t, [kind |-> "ok", success |-> TRUE,
                  message |-> "Image burned successfully",
                  hash_verification |-> loc[t].hash_verification,
                  bytes_written |-> loc[t].bytes_written])
    /\ UNCHANGED <<is_burning, progress, total_bytes, cancel_flag,
                   device, touched, io_failed, idle_cancel, window_cancel, target_os>>

\* ----------------------------------------------------------- secure_erase
\* main.rs 679-681
EraseCheck(t) ==
    /\ pc[t] = "s_check"
    /\ IF is_burning
       THEN Return(t, Err("Another operation is in progress"))
       ELSE Goto(t, "s_set")
    /\ UNCHANGED <<shared, device, touched, io_failed, idle_cancel, window_cancel, target_os, op_lock>>

\* main.rs 683-693: the store, then secure_erase_drive with the method.
EraseSet(t) ==
    /\ pc[t] = "s_set"
    /\ is_burning' = TRUE
    /\ Local(t, "e_size", [loc[t] EXCEPT
           !.passes = PassPlan(CommandEraseMethodOf(config[t].method))])
    /\ UNCHANGED <<progress, total_bytes, current_operation, cancel_flag,
                   device, touched, io_failed, idle_cancel, window_cancel, target_os, op_lock>>

\* (mutant) the flag is released with `?`: on success only.
EraseClearOnSuccess(t) ==
    /\ pc[t] = "s_clear"
    /\ is_burning' = (loc[t].pending.kind = "err")
    /\ Return(t, loc[t].pending)
    /\ UNCHANGED <<progress, total_bytes, current_operation, cancel_flag,
                   device, touched, io_failed, idle_cancel, window_cancel, target_os, op_lock>>

\* main.rs 695-697
EraseClear(t) ==
    /\ pc[t] = "s_clear"
    /\ is_burning' = FALSE
    /\ Return(t, loc[t].pending)
    /\ UNCHANGED <<progress, total_bytes, current_operation, cancel_flag,
                   device, touched, io_failed, idle_cancel, window_cancel, target_os, op_lock>>

\* --------------------------------------------------------- calculate_hash
HashAlgorithms == {"sha256", "sha512", "md5"}

\* The spellings of algorithm names that callers pass.
AlgorithmNames == {"sha256", "SHA256", "Md5", "crc32", "CRC32"}

\* main.rs 224: algorithm.to_lowercase(), on the names above.
to_lowercase(name) ==
    CASE name = "SHA256" -> "sha256"
      [] name = "Md5" -> "md5"
      [] name = "CRC32" -> "crc32"
      [] OTHER -> name

\* A hex digest is kept as the case of its letters and the digest it spells:
\* hex::encode gives "hex"; callers also pass "HEX" and mixed "Hex".
HexCases == {"hex", "HEX", "Hex"}

\* (mutant) the digests are compared as they are spelled.
HashKeepCase(x) == x

\* main.rs 281: to_lowercase() of a hex digest.
hash_to_lowercase(x) == <<"hex", x[2]>>

\* calculate_hash returns r: to verify_hash's `?` and comparison (main.rs
\* 279-288) or to the caller.
HashReturn(t, r) ==
    IF cmd[t] = "verify_hash" /\ r.kind # "err"
    THEN Return(t, [kind |-> "hash", algorithm |-> config[t].algorithm,
                    hash |-> r.hash,
                    verified |-> (hash_to_lowercase(r.hash)
                                    = hash_to_lowercase(config[t].expected_hash)),
                    expected |-> [some |-> config[t].expected_hash]])
    ELSE Return(t, r)

\* main.rs 206-217: the file is opened and sized, total_bytes stored.
HashOpen(t) ==
    /\ pc[t] = "h_open"
    /\ \/ /\ ~PathExists(config[t].path)
          /\ HashReturn(t, Err("File not found"))
          /\ Note(t, FALSE, FALSE)
          /\ UNCHANGED total_bytes
       \/ /\ PathExists(config[t].path)
          /\ HashReturn(t, Err("Failed to open file"))
          /\ Note(t, FALSE, TRUE)
          /\ UNCHANGED total_bytes
       \/ /\ PathExists(config[t].path)
          /\ total_bytes' = Len(FileData(config[t].path))
          /\ Goto(t, "h_rst")
          /\ Note(t, FALSE, FALSE)
    /\ UNCHANGED <<is_burning, progress, current_operation, cancel_flag, device>>

\* main.rs 218-224, 261: progress is reset, then the algorithm is matched.
HashResetProgress(t) ==
    /\ pc[t] = "h_rst"
    /\ progress' = 0
    /\ IF to_lowercase(config[t].algorithm) \in HashAlgorithms
       THEN Local(t, "h_read", [loc[t] EXCEPT !.hasher = HashNew, !.bytes_read = 0])
       ELSE HashReturn(t, Err("Unsupported algorithm"))
    /\ UNCHANGED <<is_burning, total_bytes, current_operation, cancel_flag,
                   device, touched, io_failed, idle_cancel, window_cancel, target_os, op_lock>>

\* main.rs 227-235 (and the two other arms): one read of up to 1 MiB and the
\* store of progress, or the end of the file and Ok(HashResult).
HashRead(t) ==
    /\ pc[t] = "h_read"
    /\ LET l == loc[t]
           data == FileData(config[t].path)
           n == Min(HashBufSize, Len(data) - l.bytes_read)
       IN \/ /\ n > 0
             /\ progress' = l.bytes_read + n
             /\ Local(t, "h_read", [l EXCEPT
                    !.hasher = HashUpdate(@, SubSeq(data, l.bytes_read + 1,
                                                    l.bytes_read + n)),
                    !.bytes_read = @ + n])
             /\ Note(t, FALSE, FALSE)
          \/ /\ n = 0
             /\ UNCHANGED progress
             /\ HashReturn(t, [kind |-> "hash", algorithm |-> config[t].algorithm,
                           hash |-> HexEncode(l.hasher), verified |-> TRUE,
                           expected |-> None])
             /\ Note(t, FALSE, FALSE)
          \/ /\ UNCHANGED progress
             /\ HashReturn(t, Err("Read error"))
             /\ Note(t, FALSE, TRUE)
    /\ UNCHANGED <<is_burning, total_bytes, current_operation, cancel_flag, device>>

\* ------------------------------------------------------ get_burn_progress
\* main.rs 648
PollProgress(t) ==
    /\ pc[t] = "p_progress"
    /\ Local(t, "p_total", [loc[t] EXCEPT !.progress = progress])
    /\ UNCHANGED <<shared, device, touched, io_failed, idle_cancel, window_cancel, target_os, op_lock>>

\* main.rs 649
PollTotal(t) ==
    /\ pc[t] = "p_total"
    /\ Local(t, "p_label", [loc[t] EXCEPT !.total = total_bytes])
    /\ UNCHANGED <<shared, device, touched, io_failed, idle_cancel, window_cancel, target_os, op_lock>>

\* main.rs 652-656: (progress / total) * 100.0, or 0.0 when total is 0; the
\* quotient is kept exact as numerator and denominator.
Percent(bytes, total) ==
    IF total > 0 THEN [num |-> bytes * 100, den |-> total]
    ELSE [num |-> 0, den |-> 1]

\* main.rs 650-666: the label is read under its lock and the snapshot
\* returned.
PollLabel(t) ==
    /\ pc[t] = "p_label"
    /\ op_lock = NoHolder
    /\ Return(t, [kind |-> "progress",
                  stage |-> current_operation,
                  progress_percent |-> Percent(loc[t].progress, loc[t].total),
                  bytes_written |-> loc[t].progress,
                  total_bytes |-> loc[t].total])
    /\ UNCHANGED <<shared, device, touched, io_failed, idle_cancel, window_cancel, target_os, op_lock>>

\* ----------------------------------------------------------- encryption.rs
\* encryption.rs 47, 49: [u8; 32]
KeyLen == 32

\* encryption.rs 77: [0u8; 12]
NonceLen == 12

\* A mixing function that stands for the primitives of argon2 and aes_gcm:
\* every byte of the input and its position bear on the outcome.
Mix(h, bytes) ==
    LET m[k \in 0..Len(bytes)] ==
            IF k = 0 THEN h
            ELSE (m[k - 1] * 33 + bytes[k] + 1) % (2 ^ 20)
    IN m[Len(bytes)]

\* n as len digits, a byte each.
Digits(n, len) ==
    [i \in 1..len |-> (n \div ((ByteMax + 1) ^ (i - 1))) % (ByteMax + 1)]

\* (mutant) the key also depends on how many invocations are under way.
DeriveKeyBySession(password, salt) ==
    LET others == Cardinality({u \in Tasks : pc[u] # "idle"}) IN
    IF Len(salt) < 8 THEN Err("Key derivation failed")
    ELSE [kind |-> "key",
          key |-> [i \in 1..KeyLen |->
                     Mix(i + others, password \o <<ByteMax>> \o salt)
                        % (ByteMax + 1)]]

\* encryption.rs 47-56: Argon2::default().hash_password_into(password, salt,
\* &mut key): the 32 bytes of the key are a function of the password and the
\* salt; argon2 refuses a salt of less than 8 bytes.
derive_key(password, salt) ==
    IF Len(salt) < 8 THEN Err("Key derivation failed")
    ELSE [kind |-> "key",
          key |-> [i \in 1..KeyLen |->
                     Mix(i, password \o <<ByteMax>> \o salt) % (ByteMax + 1)]]

\* AES-256 in counter mode: the byte of the key stream at position i.
KeyStream(key, nonce, i) == Mix(i, key \o nonce) % (ByteMax + 1)

\* The GCM tag over the ciphertext: TagLen bytes in which every byte of the
\* key, of the nonce and of the ciphertext bears, folded in the ring of the
\* tags.
GcmTag(key, nonce, ct) ==
    LET bytes == key \o nonce \o ct
        m[k \in 0..Len(bytes)] ==
            IF k = 0 THEN 0
            ELSE (m[k - 1] * 33 + bytes[k] + 1) % ((ByteMax + 1) ^ TagLen)
    IN Digits(m[Len(bytes)], TagLen)

\* encryption.rs 81-83: cipher.encrypt(nonce, data): ciphertext, then tag.
GcmEncrypt(key, nonce, data) ==
    LET ct == [i \in 1..Len(data) |->
                 (data[i] + KeyStream(key, nonce, i)) % (ByteMax + 1)]
    IN ct \o GcmTag(key, nonce, ct)

\* encryption.rs 104-106: cipher.decrypt(nonce, ciphertext): the tag is
\* checked, then the key stream taken off.
GcmDecrypt(key, nonce, body) ==
    IF Len(body) < TagLen THEN Err("Decryption failed")
    ELSE LET n == Len(body) - TagLen
             ct == SubSeq(body, 1, n)
             tag == SubSeq(body, n + 1, Len(body))
         IN IF tag # GcmTag(key, nonce, ct) THEN Err("Decryption failed")
            ELSE [kind |-> "bytes",
                  bytes |-> [i \in 1..n |->
                      (ct[i] + (ByteMax + 1) - KeyStream(key, nonce, i))
                         % (ByteMax + 1)]]

\* (mutant) the nonce is put after the ciphertext.
EncryptNonceLast(data, key, nonce_bytes) ==
    [kind |-> "bytes",
     bytes |-> GcmEncrypt(key, nonce_bytes, data) \o nonce_bytes]

\* encryption.rs 73-90, with the nonce that thread_rng() gave.
encrypt_aes256gcm(data, key, nonce_bytes) ==
    [kind |-> "bytes",
     bytes |-> nonce_bytes \o GcmEncrypt(key, nonce_bytes, data)]

\* (mutant) a failure of the cipher is passed over and the bytes handed out.
DecryptUnauthenticated(encrypted, key) ==
    IF Len(encrypted) < NonceLen THEN Err("Invalid encrypted data")
    ELSE LET r == GcmDecrypt(key, SubSeq(encrypted, 1, NonceLen),
                             SubSeq(encrypted, NonceLen + 1, Len(encrypted)))
         IN IF r.kind = "err"
            THEN [kind |-> "bytes",
                  bytes |-> SubSeq(encrypted, NonceLen + 1, Len(encrypted))]
            ELSE r

\* encryption.rs 93-107
decrypt_aes256gcm(encrypted, key) ==
    IF Len(encrypted) < NonceLen THEN Err("Invalid encrypted data")
    ELSE GcmDecrypt(key, SubSeq(encrypted, 1, NonceLen),
                    SubSeq(encrypted, NonceLen + 1, Len(encrypted)))

\* The inputs: passwords, salts (none, too short, shortest, generate_salt's
\* 32 bytes), keys, plaintexts, and what thread_rng() may give as a nonce.
Passwords == {<< >>, <<1>>, <<2, 1>>}

SaltLens == {0, 7, 8, 32}

Salts == {[i \in 1..n |-> b] : n \in SaltLens, b \in 0..1}

Keys == {[i \in 1..KeyLen |-> b] : b \in 0..1}

Plaintexts == UNION {[1..n -> 0..ByteMax] : n \in 0..MaxPlain}

Nonces == {[i \in 1..NonceLen |-> b] : b \in 0..1}
              \cup {[i \in 1..NonceLen |-> i % (ByteMax + 1)]}

\* encryption.rs 227-236, for any password and salt: derive_key twice.
DeriveFirst(t) ==
    /\ pc[t] = "k_first"
    /\ Local(t, "k_second", [loc[t] EXCEPT
           !.key1 = derive_key(config[t].password, config[t].salt)])
    /\ UNCHANGED <<shared, device, touched, io_failed, idle_cancel, window_cancel, target_os, op_lock>>

DeriveSecond(t) ==
    /\ pc[t] = "k_second"
    /\ Local(t, "k_assert", [loc[t] EXCEPT
           !.key2 = derive_key(config[t].password, config[t].salt)])
    /\ UNCHANGED <<shared, device, touched, io_failed, idle_cancel, window_cancel, target_os, op_lock>>

\* encryption.rs 235: assert_eq!(key1, key2)
DeriveAssert(t) ==
    /\ pc[t] = "k_assert"
    /\ Return(t, IF loc[t].key1 = loc[t].key2
                 THEN [kind |-> "unit"] ELSE [kind |-> "panic"])
    /\ UNCHANGED <<shared, device, touched, io_failed, idle_cancel, window_cancel, target_os, op_lock>>

\* encryption.rs 238-247, for any key and plaintext: encrypt, then decrypt.
AeadEncrypt(t) ==
    /\ pc[t] = "a_encrypt"
    /\ \E nonce_bytes \in Nonces :
          Local(t, "a_decrypt", [loc[t] EXCEPT
              !.encrypted = encrypt_aes256gcm(config[t].data, config[t].key,
                                              nonce_bytes)])
    /\ UNCHANGED <<shared, device, touched, io_failed, idle_cancel, window_cancel, target_os, op_lock>>

AeadDecrypt(t) ==
    /\ pc[t] = "a_decrypt"
    /\ Local(t, "a_assert", [loc[t] EXCEPT
           !.decrypted = decrypt_aes256gcm(loc[t].encrypted.bytes, config[t].key)])
    /\ UNCHANGED <<shared, device, touched, io_failed, idle_cancel, window_cancel, target_os, op_lock>>

\* encryption.rs 246: assert_eq!(data.to_vec(), decrypted)
AeadAssert(t) ==
    /\ pc[t] = "a_assert"
    /\ Return(t, IF loc[t].decrypted = [kind |-> "bytes", bytes |-> config[t].data]
                 THEN [kind |-> "unit"] ELSE [kind |-> "panic"])
    /\ UNCHANGED <<shared, device, touched, io_failed, idle_cancel, window_cancel, target_os, op_lock>>

\* What a caller may hand to decrypt_aes256gcm in place of a blob: the blob
\* with one byte put to another value, and the blob cut short of its nonce.
AlteredBlobs(blob) ==
    {[blob EXCEPT ![i] = (blob[i] + d) % (ByteMax + 1)] :
        i \in 1..Len(blob), d \in 1..ByteMax}

ShortBlobs(blob) == {SubSeq(blob, 1, n) : n \in 0..(NonceLen - 1)}

\* The keys other than the one of the encryption: another of Keys, or the
\* key but for its first or its last byte.
OtherKeys(key) ==
    (Keys \ {key}) \cup {[key EXCEPT ![i] = (key[i] + 1) % (ByteMax + 1)] :
                              i \in {1, KeyLen}}

\* The calls of decrypt_aes256gcm on what encrypt_aes256gcm gave (encryption.rs
\* 243-244), the blob intact, altered or short, under the key or another.
DecryptCases(data, key, nonce_bytes) ==
    LET blob == encrypt_aes256gcm(data, key, nonce_bytes).bytes IN
    {[how |-> "intact", data |-> data, encrypted |-> blob, key |-> key]}
      \cup {[how |-> "altered", data |-> data, encrypted |-> b, key |-> key] :
                b \in AlteredBlobs(blob)}
      \cup {[how |-> "short", data |-> data, encrypted |-> b, key |-> key] :
                b \in ShortBlobs(blob)}
      \cup {[how |-> "other_key", data |-> data, encrypted |-> blob, key |-> k] :
                k \in OtherKeys(key)}

CallDecrypt(t) ==
    /\ pc[t] = "idle"
    /\ result[t] = NoResult
    /\ \E data \in Plaintexts, key \in Keys, nonce_bytes \in Nonces :
          \E c \in DecryptCases(data, key, nonce_bytes) :
              config' = [config EXCEPT ![t] = c]
    /\ pc' = [pc EXCEPT ![t] = "d_decrypt"]
    /\ cmd' = [cmd EXCEPT ![t] = "decrypt_aes256gcm"]
    /\ loc' = [loc EXCEPT ![t] = NoLoc]
    /\ UNCHANGED <<shared, device, result, touched, io_failed, idle_cancel, window_cancel, target_os, op_lock>>

\* encryption.rs 93-107
DecryptBlob(t) ==
    /\ pc[t] = "d_decrypt"
    /\ Local(t, "d_return", [loc[t] EXCEPT
           !.decrypted = decrypt_aes256gcm(config[t].encrypted, config[t].key)])
    /\ UNCHANGED <<shared, device, touched, io_failed, idle_cancel, window_cancel, target_os, op_lock>>

DecryptReturn(t) ==
    /\ pc[t] = "d_return"
    /\ Return(t, loc[t].decrypted)
    /\ UNCHANGED <<shared, device, touched, io_failed, idle_cancel, window_cancel, target_os, op_lock>>

\* encryption.rs 151-154, 165: a u64, as four limbs of 16 bits, the lowest
\* first, so that its whole width is there.
Limb == 2 ^ 16

U64(n) == <<n % Limb, n \div Limb, 0, 0>>

U64Max == <<Limb - 1, Limb - 1, Limb - 1, Limb - 1>>

\* a < b
U64Below(a, b) ==
    \E i \in 1..4 : a[i] < b[i] /\ \A j \in (i + 1)..4 : a[j] = b[j]

\* a - b modulo 2^64, what `-` gives where overflow is not checked.
wrapping_sub(a, b) ==
    LET borrow[i \in 0..4] ==
            IF i = 0 THEN 0
            ELSE IF a[i] - b[i] - borrow[i - 1] < 0 THEN 1 ELSE 0
    IN [i \in 1..4 |-> (a[i] - b[i] - borrow[i - 1] + Limb) % Limb]

\* a + b, or no limbs at all where it does not fit in a u64.
checked_add(a, b) ==
    LET carry[i \in 0..4] ==
            IF i = 0 THEN 0
            ELSE IF a[i] + b[i] + carry[i - 1] >= Limb THEN 1 ELSE 0
    IN IF carry[4] = 1 THEN << >>
       ELSE [i \in 1..4 |-> (a[i] + b[i] + carry[i - 1]) % Limb]

\* encryption.rs 187: encrypted_area_start: 131072, the 128 KiB offset
AreaStart == 131072

\* how far around the offset the volume sizes are taken
MaxDelta == 2

\* The volume sizes: none, around the offset, the one of the documentation,
\* and the largest.
VolumeSizes ==
    {U64(0), U64(10000000), U64Max}
       \cup {U64(AreaStart + d) : d \in (0 - MaxDelta)..MaxDelta}

\* encryption.rs 202-211, 216-220
VeraCryptAlgorithms == 1..10

VeraCryptHashes == 1..5

\* encryption.rs 171-177: what thread_rng() fills an array of 64 bytes with.
RandomArrays == {[i \in 1..64 |-> b] : b \in {0, ByteMax}}

\* encryption.rs 188: volume_size - 131072 on u64. Below the offset the
\* subtraction overflows: a build with overflow checks panics, one without
\* wraps around.
AreaLength(volume_size, overflow_checks) ==
    IF U64Below(volume_size, U64(AreaStart)) /\ overflow_checks
    THEN [kind |-> "panic"]
    ELSE wrapping_sub(volume_size, U64(AreaStart))

\* encryption.rs 165-197
VeraCryptHeaderNew(volume_size, encryption_algo, hash_algo, now, keys, checks) ==
    LET len == AreaLength(volume_size, checks) IN
    IF len = [kind |-> "panic"] THEN [kind |-> "panic"]
    ELSE [kind |-> "header",
          version |-> 5,
          required_program_version |-> 267,
          crc32 |-> 0,
          volume_creation_time |-> now,
          header_creation_time |-> now,
          hidden_volume_size |-> U64(0),
          volume_size |-> volume_size,
          encrypted_area_start |-> U64(AreaStart),
          encrypted_area_length |-> len,
          flags |-> 0,
          sector_size |-> 512,
          encryption_algorithm |-> encryption_algo,
          hash_algorithm |-> hash_algo,
          master_key |-> keys[1],
          secondary_key |-> keys[2],
          salt |-> keys[3]]

CallHeaderNew(t) ==
    /\ pc[t] = "idle"
    /\ result[t] = NoResult
    /\ \E v \in VolumeSizes, e \in VeraCryptAlgorithms, h \in VeraCryptHashes :
          config' = [config EXCEPT ![t] =
              [volume_size |-> v, encryption_algo |-> e, hash_algo |-> h]]
    /\ pc' = [pc EXCEPT ![t] = "vc_new"]
    /\ cmd' = [cmd EXCEPT ![t] = "VeraCryptHeader::new"]
    /\ loc' = [loc EXCEPT ![t] = NoLoc]
    /\ UNCHANGED <<shared, device, result, touched, io_failed, idle_cancel, window_cancel, target_os, op_lock>>

\* encryption.rs 165-197, in either build, at any time of the clock and with
\* whatever thread_rng() gives.
HeaderNew(t) ==
    /\ pc[t] = "vc_new"
    /\ \E overflow_checks \in BOOLEAN, now \in 0..1,
          keys \in [1..3 -> RandomArrays] :
          Return(t, VeraCryptHeaderNew(config[t].volume_size,
                                       config[t].encryption_algo,
                                       config[t].hash_algo, now, keys,
                                       overflow_checks))
    /\ UNCHANGED <<shared, device, touched, io_failed, idle_cancel, window_cancel, target_os, op_lock>>

\* ------------------------------------------------------------------- steps
\* The steps of burn_image and of the functions it calls, but for the erase
\* engine and the encryption stage.
RunBurn(t) ==
    \/ BurnCheck(t) \/ BurnSet(t) \/ BurnClearCancel(t)
    \/ BurnResetProgress(t) \/ BurnLabelPreparing(t) \/ BurnValidate(t)
    \/ BurnLabelErase(t) \/ BurnCancelCheck(t) \/ BurnAbort(t)
    \/ BurnLabelWrite(t) \/ WriteOpen(t) \/ WriteCheck(t) \/ WriteChunk(t)
    \/ WriteProgress(t) \/ WriteFlush(t) \/ WriteDrop(t)
    \/ BurnLabelBootloader(t) \/ BurnLabelVerify(t) \/ VerifyHashImage(t)
    \/ VerifyOpenDevice(t) \/ VerifyResetProgress(t) \/ VerifyRead(t)
    \/ VerifyProgress(t) \/ BurnLabelSync(t) \/ BurnSync(t) \/ BurnClear(t)
    \/ BurnComplete(t)

\* The steps of secure_erase_drive and write_pattern.
RunErase(t) ==
    \/ EraseSize(t) \/ EraseOpen(t) \/ EraseSeek(t) \/ EraseWrite(t)
    \/ EraseDone(t) \/ EraseSync(t)

\* The steps of the secure_erase command around the engine.
RunEraseCommand(t) == EraseCheck(t) \/ EraseSet(t) \/ EraseClear(t)

\* The steps of calculate_hash.
RunHash(t) == HashOpen(t) \/ HashResetProgress(t) \/ HashRead(t)

\* The steps of get_burn_progress.
RunPoll(t) == PollProgress(t) \/ PollTotal(t) \/ PollLabel(t)

\* Every step but those of the encryption stage.
RunCore(t) == RunBurn(t) \/ RunErase(t) \/ RunEraseCommand(t) \/ RunHash(t)

RunEncrypt(t) == BurnLabelEncrypt(t) \/ LuksFormat(t) \/ LuksAddKey(t)

\* The burn configurations of the concurrent specification: no encryption,
\* and an erase, when asked for, with zeros.
PlainConfigs ==
    {c \in BurnConfigs : c.encryption = None /\ c.erase_method = "zeros"}

InvokeBurn(t, configs) == \E c \in configs : Invoke(t, "burn_image", c)

InvokeErase(t, methods) ==
    \E m \in methods : Invoke(t, "secure_erase", [method |-> m])

InvokeHash(t) ==
    \E p \in Paths, a \in {"sha256", "crc32"} :
        Invoke(t, "calculate_hash", [path |-> p, algorithm |-> a])

\* Two invocations, each of any command, in every interleaving, with
\* cancel requests at any moment.
Next ==
    \/ CancelBurn
    \/ \E t \in Workers :
         \/ InvokeBurn(t, PlainConfigs)
         \/ InvokeErase(t, {"zeros", "dod"})
         \/ InvokeHash(t)
         \/ RunCore(t)

Spec == Init /\ [][Next]_vars

\* One burn_image (or secure_erase) with any configuration, beside a
\* calculate_hash and cancel requests at any moment.
NextRun ==
    \/ CancelBurn
    \/ InvokeBurn("t1", BurnConfigs)
    \/ InvokeErase("t1", EraseMethodNames)
    \/ InvokeHash("t2")
    \/ \E t \in Workers : RunCore(t) \/ RunEncrypt(t)

SpecRun == Init /\ [][NextRun]_vars

\* One burn_image with any configuration and nothing beside it but cancel
\* requests.
NextBurn ==
    \/ CancelBurn
    \/ InvokeBurn("t1", BurnConfigs)
    \/ RunBurn("t1") \/ RunErase("t1") \/ RunEncrypt("t1")

SpecBurn == Init /\ [][NextBurn]_vars

\* secure_erase_drive called with a method of the enum, on a device of any
\* size up to DevSize.
CallEraseDrive(t, method) ==
    /\ pc[t] = "idle"
    /\ result[t] = NoResult
    /\ pc' = [pc EXCEPT ![t] = "e_size"]
    /\ cmd' = [cmd EXCEPT ![t] = "secure_erase_drive"]
    /\ config' = [config EXCEPT ![t] = [method |-> method]]
    /\ loc' = [loc EXCEPT ![t] = [NoLoc EXCEPT !.passes = PassPlan(method)]]
    /\ UNCHANGED <<shared, device, result, touched, io_failed, idle_cancel, window_cancel, target_os, op_lock>>

InitErase ==
    /\ is_burning = FALSE
    /\ progress = 0
    /\ total_bytes = 0
    /\ current_operation = OpNone
    /\ cancel_flag = FALSE
    /\ device \in {[i \in 1..n |-> 0] : n \in 0..DevSize}
    /\ pc = [t \in Tasks |-> "idle"]
    /\ cmd = [t \in Tasks |-> "none"]
    /\ config = [t \in Tasks |-> NoConfig]
    /\ loc = [t \in Tasks |-> NoLoc]
    /\ result = [t \in Tasks |-> NoResult]
    /\ touched = [t \in Tasks |-> FALSE]
    /\ io_failed = [t \in Tasks |-> FALSE]
    /\ idle_cancel = FALSE
    /\ window_cancel = [t \in Tasks |-> FALSE]
    /\ target_os \in TargetOs
    /\ op_lock = NoHolder

NextErase ==
    \/ \E m \in SecureEraseMethods : CallEraseDrive("t1", m)
    \/ RunErase("t1")

SpecErase == InitErase /\ [][NextErase]_vars

\* The steps of the key derivation and of the AEAD round trip.
RunDerive(t) == DeriveFirst(t) \/ DeriveSecond(t) \/ DeriveAssert(t)

RunAead(t) == AeadEncrypt(t) \/ AeadDecrypt(t) \/ AeadAssert(t)

InvokeDerive(t) ==
    \E p \in Passwords, s \in Salts :
        Invoke(t, "test_key_derivation", [password |-> p, salt |-> s])

InvokeAead(t) ==
    \E d \in Plaintexts, k \in Keys :
        Invoke(t, "test_aes_encryption", [data |-> d, key |-> k])

\* Two invocations in every interleaving: a key derivation or a round trip,
\* and a key derivation.
NextCrypto ==
    \/ InvokeDerive("t1") \/ InvokeDerive("t2")
    \/ InvokeAead("t1")
    \/ \E t \in Workers : RunDerive(t)
    \/ RunAead("t1")

SpecCrypto == Init /\ [][NextCrypto]_vars

\* One secure_erase command with any method name, and cancel requests.
NextEraseCommand ==
    \/ CancelBurn
    \/ InvokeErase("t1", EraseMethodNames)
    \/ RunEraseCommand("t1") \/ RunErase("t1")

SpecEraseCommand == Init /\ [][NextEraseCommand]_vars

\* The names a caller may give for the erase method: those of the four
\* methods, one of them in another case, the empty one and another one.
SelectNames == EraseMethodNames \cup {"gutmann", "DoD", ""}

SelectConfigs ==
    {c \in [image_path : {ImagePath}, verify_after_write : {FALSE},
            secure_erase_before : BOOLEAN, erase_method : SelectNames,
            encryption : {None}] : TRUE}

\* A burn_image up to the end of its erase stage, and beside it a
\* secure_erase up to its choice of the method.
NextSelect ==
    \/ InvokeBurn("t1", SelectConfigs)
    \/ InvokeErase("t2", SelectNames)
    \/ BurnCheck("t1") \/ BurnSet("t1") \/ BurnClearCancel("t1")
    \/ BurnResetProgress("t1") \/ BurnLabelPreparing("t1")
    \/ BurnValidate("t1") \/ BurnLabelErase("t1")
    \/ RunErase("t1")
    \/ EraseCheck("t2") \/ EraseSet("t2")

SpecSelect == Init /\ [][NextSelect]_vars

\* A call of decrypt_aes256gcm on every blob a caller may hold.
NextDecrypt ==
    \/ CallDecrypt("t1")
    \/ DecryptBlob("t1")
    \/ DecryptReturn("t1")

SpecDecrypt == Init /\ [][NextDecrypt]_vars

\* A call of VeraCryptHeader::new with any volume size and algorithms.
NextVeraCrypt ==
    \/ CallHeaderNew("t1")
    \/ HeaderNew("t1")

SpecVeraCrypt == Init /\ [][NextVeraCrypt]_vars

\* calculate_hash of a present or missing file under any spelling.
InvokeHashNamed(t) ==
    \E p \in Paths, a \in AlgorithmNames :
        Invoke(t, "calculate_hash", [path |-> p, algorithm |-> a])

\* The digests a caller expects: that of the image and another one, in any
\* letter case.
ExpectedHashes ==
    {<<c, h>> : c \in HexCases,
                h \in {HashUpdate(HashNew, ImageData), HashUpdate(HashNew, SmallData)}}

InvokeVerify(t) ==
    \E p \in Paths, a \in AlgorithmNames, e \in ExpectedHashes :
        Invoke(t, "verify_hash", [path |-> p, algorithm |-> a, expected_hash |-> e])

\* A calculate_hash and a verify_hash, in every interleaving.
NextHash ==
    \/ InvokeHashNamed("t1")
    \/ InvokeVerify("t2")
    \/ \E t \in Workers : RunHash(t)

SpecHash == Init /\ [][NextHash]_vars

InvokePoll(t) == Invoke(t, "get_burn_progress", None)

\* A calculate_hash of the image, one of the shorter file and a progress
\* poll, in every interleaving.
NextPoll ==
    \/ InvokeHash("t1")
    \/ Invoke("t2", "calculate_hash", [path |-> SmallPath, algorithm |-> "sha256"])
    \/ InvokePoll(Poller)
    \/ \E t \in Tasks : RunHash(t) \/ RunPoll(t)

SpecPoll == Init /\ [][NextPoll]_vars

\* One burn_image of any configuration and one get_burn_progress, in every
\* interleaving, with cancel requests at any moment.
NextLabel ==
    \/ CancelBurn
    \/ InvokeBurn("t1", BurnConfigs)
    \/ RunBurn("t1") \/ RunErase("t1") \/ RunEncrypt("t1")
    \/ InvokePoll(Poller)
    \/ RunPoll(Poller)

SpecLabel == Init /\ [][NextLabel]_vars

\* ================================================================== claims
ErrAlreadyRunning == Err("A burn operation is already in progress")

ErrCancelled == Err("Operation cancelled")

\* The invocation is a burn_image or secure_erase past its test of is_burning.
PastCheck(t) ==
    /\ cmd[t] \in {"burn_image", "secure_erase"}
    /\ pc[t] \notin {"idle", "b_check", "s_check"}

\* The invocation is a burn_image that has been accepted and has set its
\* first label.
InRun(t) ==
    /\ cmd[t] = "burn_image"
    /\ pc[t] \notin {"idle", "b_check", "b_set", "b_clr_cancel",
                     "b_rst_progress", "b_label_prep"}

\* This step is burn_image returning Ok(BurnResult).
Completes(t) == pc[t] = "b_complete" /\ pc'[t] = "idle"

\* C1: at most one burn_image / secure_erase invocation is ever past the
\* test of the in-progress flag.
C1_MutualExclusion == Cardinality({t \in Tasks : PastCheck(t)}) <= 1

\* C2: a burn_image that observes is_burning = true returns the
\* already-running error and changes none of is_burning, progress,
\* total_bytes, current_operation, cancel_flag (nor the device).
C2_RejectedBurnChangesNothing ==
    [][\A t \in Tasks :
         (pc[t] = "b_check" /\ is_burning /\ pc'[t] # pc[t]) =>
            /\ pc'[t] = "idle"
            /\ result'[t] = ErrAlreadyRunning
            /\ UNCHANGED <<shared, device>>]_vars

\* A burn is rejected while the first one is in its write loop, with
\* progress made and a cancel request pending.
C2_Witness ==
    \E t, u \in Tasks :
        /\ result[t] = ErrAlreadyRunning
        /\ cmd[u] = "burn_image" /\ pc[u] = "w_check"
        /\ is_burning /\ progress > 0 /\ cancel_flag

\* C3: every stage of burn_image (erase, write, encryption setup, bootloader
\* configuration, verification) is entered straight from a test of
\* cancel_flag, and a test that finds the flag set ends the run.
C3_CancelCheckedBeforeEveryStage ==
    [][\A t \in Tasks :
         /\ (pc'[t] # pc[t] /\ pc'[t] \in {"b_label_erase", "b_label_write",
                    "b_label_enc", "b_label_boot", "b_label_verify"})
               => pc[t] \in {"b_cancel1", "b_cancel2"}
         /\ (pc[t] \in {"b_cancel1", "b_cancel2"} /\ cancel_flag
                    /\ pc'[t] # pc[t])
               => pc'[t] = "b_abort"]_vars

\* C4: the write loop goes on to a further chunk only when it finds
\* cancel_flag clear, and when it finds it set the run ends with the
\* operation-cancelled error with progress equal to the bytes handed to the
\* device.
C4_CancelDuringWrite ==
    [][\A t \in Tasks :
         /\ (pc[t] = "w_check" /\ pc'[t] \in {"w_write", "w_flush"})
               => ~cancel_flag
         /\ (pc[t] = "w_check" /\ cancel_flag /\ pc'[t] # pc[t])
               => /\ progress = loc[t].bytes_written
                  /\ \/ result'[t] = ErrCancelled
                     \/ pc'[t] = "w_drop" /\ loc'[t].pending = ErrCancelled]_vars

\* C5: a burn_image whose image does not exist (or whose metadata cannot be
\* read) returns that error with is_burning false and without having
\* touched the device.
C5_SourceNotFound ==
    [][\A t \in Tasks :
         (pc[t] = "b_validate" /\ pc'[t] # pc[t]) =>
            /\ ~PathExists(config[t].image_path)
                  => pc'[t] = "idle" /\ result'[t] = Err("Image file not found")
            /\ pc'[t] = "idle"
                  => /\ result'[t] \in {Err("Image file not found"),
                                        Err("Failed to read image")}
                     /\ is_burning' = FALSE
                     /\ ~touched'[t]
                     /\ device' = device]_vars

C5_Witness ==
    \E t \in Tasks :
        /\ result[t] = Err("Image file not found")
        /\ ~is_burning /\ ~touched[t]

\* The order of the stage labels.
StageRank(label) ==
    CASE label = OpErasing -> 1
      [] label = OpWriting -> 2
      [] label = OpEncrypting -> 3
      [] label = OpBootloader -> 4
      [] label = OpVerifying -> 5
      [] label = OpSyncing -> 6
      [] label = OpComplete -> 7
      [] OTHER -> 0

\* C6: while a burn_image runs, the stage label only advances along erase,
\* write, encryption setup, bootloader configuration, verification,
\* completion.
C6_StageLabelAdvances ==
    [][\A t \in Tasks :
         (InRun(t) /\ pc'[t] # "idle") =>
            StageRank(current_operation') >= StageRank(current_operation)]_vars

\* C7: when burn_image returns Ok, is_burning is false, the label is
\* "Complete", success is true, bytes_written is the image's length and a
\* verification record is there exactly when verify_after_write was asked.
C7_NormalCompletion ==
    [][\A t \in Tasks :
         Completes(t) =>
            /\ is_burning' = FALSE
            /\ current_operation' = OpComplete
            /\ result'[t].kind = "ok" /\ result'[t].success
            /\ result'[t].bytes_written = Len(FileData(config[t].image_path))
            /\ (result'[t].hash_verification # None)
                  <=> config[t].verify_after_write]_vars

\* C8: a burn_image one of whose steps failed never returns success.
C8_FailuresSurface ==
    \A t \in Tasks : result[t].kind = "ok" => ~io_failed[t]

\* C9: a run whose verification read something else than the image still
\* returns Ok with success = true and a record with verified = false, and
\* has cleared is_burning on its way out like every completing run.
C9_MismatchIsNotFatal ==
    [][\A t \in Tasks :
         /\ (pc'[t] = "b_complete" /\ pc[t] # pc'[t])
               => pc[t] = "b_clear" /\ is_burning' = FALSE
         /\ (Completes(t) /\ config[t].verify_after_write
                    /\ loc[t].hashed # FileData(config[t].image_path))
               => /\ result'[t].kind = "ok" /\ result'[t].success
                  /\ result'[t].hash_verification # None
                  /\ result'[t].hash_verification.verified = FALSE]_vars

C9_Witness ==
    \E t \in Tasks :
        /\ result[t].kind = "ok" /\ result[t].success
        /\ result[t].hash_verification # None
        /\ ~result[t].hash_verification.verified
        /\ SubSeq(device, 1, ImageLen) # ImageData

\* C10: the verification hashes the whole image, hashes at most image_size
\* bytes of the device, namely its first ones, and reports verified exactly
\* when those equal the image.
C10_VerifyExtent ==
    \A t \in Tasks :
        cmd[t] = "burn_image" =>
            LET l == loc[t]
                image == FileData(config[t].image_path)
            IN /\ Len(l.hashed) <= l.image_size
               /\ l.hashed = SubSeq(device, 1, Len(l.hashed))
               /\ l.hash_verification # None =>
                     /\ l.hash_verification.expected =
                           [some |-> HexEncode(HashUpdate(HashNew, image))]
                     /\ l.hash_verification.hash =
                           HexEncode(HashUpdate(HashNew, l.hashed))
                     /\ l.hashed = SubSeq(device, 1, l.image_size)
                     /\ l.hash_verification.verified <=> (l.hashed = image)

C10_Witness ==
    \E t \in Tasks :
        /\ cmd[t] = "burn_image"
        /\ loc[t].hash_verification # None
        /\ loc[t].hash_verification.verified
        /\ Len(device) > loc[t].image_size

\* The invocation is a burn_image that has reset the counter (main.rs 307)
\* and has not returned.
PastReset(t) ==
    /\ cmd[t] = "burn_image"
    /\ pc[t] \notin {"idle", "b_check", "b_set", "b_clr_cancel",
                     "b_rst_progress"}

\* C11: from the reset of the counter at the start of a burn_image run to
\* the run's end, no step makes progress smaller: two successive reads by a
\* poller are non-decreasing.
C11_ProgressMonotonic ==
    [][\A t \in Tasks :
         (PastReset(t) /\ pc'[t] # "idle") => progress' >= progress]_vars

\* C12: while a burn_image run is in progress, no step of another command
\* (calculate_hash in particular) changes progress or total_bytes.
C12_SingleWriter ==
    [][\A t, u \in Tasks :
         (Active(t) /\ u # t /\ cmd[u] = "calculate_hash" /\ pc'[u] # pc[u])
            => UNCHANGED <<progress, total_bytes>>]_vars

\* C13: every snapshot get_burn_progress returns has a percent complete
\* within 0..100, 0 when its total is 0, with bytes processed never above
\* the total.
C13_PercentInRange ==
    \A t \in Tasks :
        result[t].kind = "progress" =>
            /\ result[t].progress_percent.num >= 0
            /\ result[t].progress_percent.num <= 100 * result[t].progress_percent.den
            /\ result[t].total_bytes = 0 => result[t].progress_percent.num = 0
            /\ result[t].total_bytes > 0 =>
                  result[t].bytes_written <= result[t].total_bytes

\* The invocation is a burn_image that has cleared cancel_flag (main.rs 306)
\* and has not returned.
PastClear(t) ==
    /\ cmd[t] = "burn_image"
    /\ pc[t] \notin {"idle", "b_check", "b_set", "b_clr_cancel"}

\* C14: an accepted burn_image clears cancel_flag and then resets progress
\* before its first label and its first stage, having touched no device; and
\* cancel_flag goes from false to true only in a step of cancel_burn, never
\* in a step of a pipeline.
C14_ResetAtStart ==
    [][/\ \A t \in Tasks :
            /\ (pc[t] = "b_set" /\ pc'[t] # pc[t]) => pc'[t] = "b_clr_cancel"
            /\ (pc[t] = "b_clr_cancel" /\ pc'[t] # pc[t])
                  => cancel_flag' = FALSE /\ pc'[t] = "b_rst_progress"
            /\ (pc[t] = "b_rst_progress" /\ pc'[t] # pc[t])
                  => progress' = 0 /\ pc'[t] = "b_label_prep"
            /\ (pc'[t] = "b_label_prep" /\ pc'[t] # pc[t])
                  => pc[t] = "b_rst_progress" /\ ~touched[t]
            /\ (pc'[t] = "b_validate" /\ pc'[t] # pc[t])
                  => pc[t] = "b_label_prep"
       /\ (cancel_flag' /\ ~cancel_flag)
            => UNCHANGED <<is_burning, progress, total_bytes,
                           current_operation, device, pc, cmd, config, loc,
                           result, touched, io_failed>>]_vars

\* A run has cleared the flag and reset the counter left behind by a run
\* that was cancelled.
C14_Witness ==
    \E t, u \in Tasks :
        /\ cmd[t] = "burn_image" /\ pc[t] = "b_label_prep"
        /\ ~cancel_flag /\ progress = 0
        /\ result[u] = ErrCancelled

\* C15: cancel_burn can always be called and changes nothing but
\* cancel_flag; a request made while no run is active is gone once a run
\* started afterwards has cleared the flag, so no run observes it and none
\* is cancelled by it.
C15_IdleCancelHasNoEffect ==
    /\ []ENABLED CancelBurn
    /\ [](\A t \in Tasks : PastClear(t) => ~idle_cancel)
    /\ [][/\ (cancel_flag' # cancel_flag /\ cancel_flag')
               => UNCHANGED <<is_burning, progress, total_bytes,
                              current_operation, device, pc, cmd, config,
                              loc, result, touched, io_failed>>
          /\ \A t \in Tasks :
               (\/ (result'[t] = ErrCancelled /\ result[t] # ErrCancelled)
                \/ (pc'[t] = "b_abort" /\ pc[t] # "b_abort"))
                  => ~idle_cancel]_vars

\* After a run has completed a cancel request was made with no run active,
\* and a run started afterwards is about to clear the flag.
C15_Witness ==
    \E t, u \in Tasks :
        /\ result[u].kind = "ok"
        /\ cmd[t] = "burn_image" /\ pc[t] = "b_clr_cancel"
        /\ cancel_flag /\ idle_cancel

\* The number of leading bytes of the device that are the image's.
RECURSIVE CommittedLen(_, _)
CommittedLen(dev, image) ==
    IF dev = << >> \/ image = << >> \/ Head(dev) # Head(image) THEN 0
    ELSE 1 + CommittedLen(Tail(dev), Tail(image))

\* C16: when the write stage ends with a read, write or flush error, the
\* counter is below the image's size and counts no byte that did not reach
\* whose next byte keeps what it held.
C16_WriteErrorCounter ==
    [][\A t \in Tasks :
         (/\ cmd[t] = "burn_image"
          /\ pc[t] \in {"w_check", "w_write", "w_flush", "w_drop"}
          /\ result'[t] \in {Err("Read error"), Err("Write error"),
                             Err("Flush error")})
            => /\ progress' < Len(FileData(config[t].image_path))
               /\ progress' <= CommittedLen(device',
                                            FileData(config[t].image_path))]_vars

\* main.rs 376-377: encryption settings are present and enabled.
EncryptionEnabled(c) == c.encryption # None /\ c.encryption.enabled

\* C17: the encryption stage is entered only, and whenever the run is not
\* cancelled, with settings present and enabled; an encryption_type that is
\* not supported ends the run with the unsupported-type error, the device
\* untouched by this stage and still holding the written image.
C17_EncryptionStage ==
    [][\A t \in Tasks :
         /\ (pc'[t] \in {"b_label_enc", "luks_format", "luks_addkey"}
                 /\ pc'[t] # pc[t])
               => /\ EncryptionEnabled(config[t])
                  /\ pc'[t] = "b_label_enc" => pc[t] = "b_cancel2"
         /\ (pc[t] = "b_cancel2" /\ pc'[t] # pc[t] /\ ~cancel_flag
                 /\ EncryptionEnabled(config[t]))
               => pc'[t] = "b_label_enc"
         /\ (pc[t] = "b_label_enc" /\ pc'[t] # pc[t]
                 /\ config[t].encryption.encryption_type
                       \notin {"luks", "luks2", "veracrypt"})
               => /\ pc'[t] = "idle"
                  /\ result'[t] = Err("Unsupported encryption type")
                  /\ device' = device
                  /\ SubSeq(device', 1, loc[t].image_size)
                        = FileData(config[t].image_path)]_vars

C17_Witness ==
    \E t \in Tasks :
        /\ result[t] = Err("Unsupported encryption type")
        /\ SubSeq(device, 1, ImageLen) = ImageData

\* The invocation is inside secure_erase_drive.
InErase(t) ==
    pc[t] \in {"e_size", "e_open", "e_seek", "e_write", "e_done", "e_sync"}

\* The invocation is inside write_image_to_drive.
InWrite(t) ==
    pc[t] \in {"w_open", "w_check", "w_write", "w_progress", "w_flush",
               "w_drop"}

\* C18: burn_image enters the erase engine only with secure_erase_before
\* set; without it the device is unchanged until the write stage; with it
\* the write stage is reached only from the erase's successful sync, all of
\* its passes done.
C18_EraseBeforeWrite ==
    [][\A t \in Tasks :
         cmd[t] = "burn_image" =>
            /\ (InErase(t)' /\ ~InErase(t))
                  => pc[t] = "b_label_erase" /\ config[t].secure_erase_before
            /\ (~config[t].secure_erase_before /\ ~InWrite(t)
                    /\ loc[t].bytes_written = 0 /\ pc[t] # "luks_format")
                  => device' = device
            /\ (pc'[t] = "b_cancel1" /\ pc[t] # "b_cancel1")
                  => \/ pc[t] = "b_validate" /\ ~config[t].secure_erase_before
                     \/ /\ pc[t] = "e_sync" /\ config[t].secure_erase_before
                        /\ loc[t].passes = << >>
                        /\ ~io_failed'[t]
            /\ (InWrite(t)' /\ ~InWrite(t))
                  => pc[t] = "b_label_write" /\ loc[t].bytes_written = 0
            /\ (pc'[t] = "b_label_write" /\ pc[t] # "b_label_write")
                  => pc[t] = "b_cancel1"]_vars

\* A run that was asked for a DoD erase opens the device for the write
\* stage: the whole device holds the bytes of the erase's last pass.
C18_Witness ==
    \E t \in Tasks :
        /\ cmd[t] = "burn_image" /\ pc[t] = "w_open"
        /\ config[t].secure_erase_before /\ config[t].erase_method = "dod"
        /\ \A i \in 1..Len(device) : device[i] \in RandomBytes

\* The bytes a pattern may put on the device.
PatternBytes(pattern) ==
    CASE pattern.type = "Zeros" -> {ZeroByte}
      [] pattern.type = "Ones" -> {OnesByte}
      [] pattern.type = "Random" -> RandomBytes
      [] OTHER -> {pattern.p[1], pattern.p[2], pattern.p[3]}

\* C19: passes() is 1 for Zeros and Random, 3 for DoD, 35 for Gutmann and n
\* for CustomRandom(n); secure_erase_drive plans that many passes, every
\* pass that ends has overwritten the whole device with its pattern, and a
\* successful erase has done exactly passes() of them.
C19_PassCount ==
    /\ [](/\ passes(Zeros) = 1 /\ passes(Random) = 1 /\ passes(DoD) = 3
          /\ passes(Gutmann) = 35
          /\ \A n \in 0..MaxCustom : passes(CustomRandom(n)) = n
          /\ \A m \in SecureEraseMethods : Len(PassPlan(m)) = passes(m)
          /\ \A t \in Tasks :
               (cmd[t] = "secure_erase_drive" /\ pc[t] = "e_done") =>
                  /\ loc[t].bytes_written = Len(device)
                  /\ \A i \in 1..Len(device) :
                        device[i] \in PatternBytes(Head(loc[t].passes).pattern))
    /\ [][\A t \in Tasks :
            (cmd[t] = "secure_erase_drive" /\ result'[t].kind = "unit")
               => /\ pc[t] = "e_sync"
                  /\ loc[t].passes = << >>
                  /\ loc[t].passes_done = passes(config[t].method)]_vars

\* C20: within a pass of secure_erase_drive the file offset equals the
\* bytes written so far, so the pass starts at offset 0; every chunk has at
\* most BufSize bytes and never carries the total past the device's size;
\* the pass ends with exactly that size written; a device of size 0 gets no
\* write at all.
C20_PassExtent ==
    /\ [](\A t \in Tasks :
            (cmd[t] = "secure_erase_drive" /\ pc[t] \in {"e_write", "e_done"})
               => /\ loc[t].fpos = loc[t].bytes_written
                  /\ pc[t] = "e_write" => loc[t].bytes_written < loc[t].size
                  /\ pc[t] = "e_done" => loc[t].bytes_written = loc[t].size)
    /\ [][\A t \in Tasks :
            (cmd[t] = "secure_erase_drive" /\ pc[t] = "e_write"
                /\ pc'[t] \in {"e_write", "e_done"})
               => /\ loc'[t].bytes_written > loc[t].bytes_written
                  /\ loc'[t].bytes_written - loc[t].bytes_written <= BufSize
                  /\ loc'[t].bytes_written <= loc[t].size
                  /\ \A i \in 1..Len(device) :
                        (i <= loc[t].bytes_written \/ i > loc'[t].bytes_written)
                           => device'[i] = device[i]]_vars

\* A pass after the first has ended on a device whose size is not a multiple
\* of the buffer: its last chunk was a truncated one.
C20_Witness ==
    \E t \in Tasks :
        /\ cmd[t] = "secure_erase_drive" /\ pc[t] = "e_done"
        /\ loc[t].passes_done >= 1
        /\ loc[t].size = BufSize + 1 /\ loc[t].fpos = loc[t].size

\* A call of secure_erase_drive with the Gutmann method that is inside a pass.
InGutmannPass(t) ==
    /\ cmd[t] = "secure_erase_drive"
    /\ config[t].method = Gutmann
    /\ pc[t] \in {"e_seek", "e_write", "e_done"}

\* C21: get_gutmann_pattern returns a pattern for every pass index 0..34:
\* Random for 0-3 and 31-34, a fixed motif of three bytes for 4-30; the
\* Gutmann erase is, during its k-th pass (k counted from 0), writing the
\* pattern of index k, and k never passes 34.
C21_GutmannTable ==
    /\ [](/\ \A k \in 0..34 :
               IF k <= 3 \/ k >= 31
               THEN get_gutmann_pattern(k) = [type |-> "Random"]
               ELSE /\ get_gutmann_pattern(k).type = "Fixed"
                    /\ get_gutmann_pattern(k).p \in [1..3 -> 0..255]
          /\ \A t \in Tasks :
               InGutmannPass(t) =>
                  /\ loc[t].passes_done <= 34
                  /\ loc[t].passes # << >>
                  /\ Head(loc[t].passes).pattern
                        = get_gutmann_pattern(loc[t].passes_done))
    /\ [][\A t \in Tasks :
            (InGutmannPass(t) /\ pc[t] = "e_write" /\ device' # device)
               => \A i \in 1..Len(device) :
                     device'[i] # device[i] =>
                        device'[i] \in PatternBytes(
                            get_gutmann_pattern(loc[t].passes_done))]_vars

\* The pass of index 30, the last fixed motif, has ended over a whole device.
C21_Witness ==
    \E t \in Tasks :
        /\ InGutmannPass(t) /\ pc[t] = "e_done"
        /\ loc[t].passes_done = 30
        /\ loc[t].bytes_written = DevSize
        /\ \A i \in 1..Len(device) : device[i] \in {219, 109, 182}

\* A call of secure_erase_drive with the DoD method.
InDoD(t) ==
    /\ cmd[t] = "secure_erase_drive"
    /\ config[t].method = DoD

\* C22: the DoD erase writes zeros in its first pass, ones in its second
\* and random bytes in its third; every pass that ends has covered the
\* whole device, and when the three are done every byte of the device holds
\* a byte of the random pass.
C22_DoDOrder ==
    \A t \in Tasks :
        InDoD(t) =>
           /\ pc[t] \in {"e_seek", "e_write", "e_done"} =>
                 Head(loc[t].passes).pattern.type =
                    CASE loc[t].passes_done = 0 -> "Zeros"
                      [] loc[t].passes_done = 1 -> "Ones"
                      [] OTHER -> "Random"
           /\ pc[t] = "e_done" =>
                 /\ loc[t].bytes_written = Len(device)
                 /\ \A i \in 1..Len(device) :
                       device[i] \in PatternBytes(Head(loc[t].passes).pattern)
           /\ pc[t] = "e_sync" =>
                 /\ loc[t].passes_done = 3
                 /\ \A i \in 1..Len(device) : device[i] \in RandomBytes

\* C23: secure_erase_drive returns Ok only from its sync_all, which it
\* reaches with no pass left; the sync and whatever follows it write nothing
\* to the device, the sync is followed by the return alone, and a sync that
\* failed makes the call return the error "Sync failed".
C23_SyncBeforeSuccess ==
    [][\A t \in Tasks :
         /\ (cmd[t] = "secure_erase_drive" /\ result'[t].kind = "unit")
               => /\ pc[t] = "e_sync"
                  /\ loc[t].passes = << >>
                  /\ ~io_failed'[t]
         /\ (cmd[t] = "secure_erase_drive" /\ pc[t] = "e_sync" /\ pc'[t] # pc[t])
               => /\ device' = device
                  /\ pc'[t] = "idle"
                  /\ io_failed'[t] => result'[t] = Err("Sync failed")
         /\ (\A u \in Tasks : pc[u] \in {"idle", "e_sync"})
               => device' = device]_vars

\* The erase has returned Ok after overwriting every byte of a whole device.
C23_Witness ==
    \E t \in Tasks :
        /\ result[t] = [kind |-> "unit"]
        /\ touched[t] /\ ~io_failed[t]
        /\ Len(device) = DevSize
        /\ \A i \in 1..Len(device) : device[i] # 0

\* C24: a seek or a chunk write of secure_erase_drive that fails ends the
\* call in that very step with the error of the failed operation, and from
\* the failure on the device is written no more: no retry, no later chunk,
\* no later pass.
C24_EraseAbortsOnFailure ==
    [][\A t \in Tasks :
         /\ (cmd[t] = "secure_erase_drive" /\ pc[t] \in {"e_seek", "e_write"}
                /\ io_failed'[t])
               => /\ pc'[t] = "idle"
                  /\ result'[t] = IF pc[t] = "e_seek" THEN Err("Seek failed")
                                  ELSE Err("Write failed")
         /\ io_failed[t] => device' = device]_vars

\* A chunk write failed after a part of the chunk had reached the device,
\* whose next byte keeps what it held.
C24_Witness ==
    \E t \in Tasks :
        /\ result[t] = Err("Write failed")
        /\ io_failed[t]
        /\ Len(device) = DevSize
        /\ device[1] = OnesByte /\ device[2] = 0

\* A calculate_hash whose algorithm is none of sha256, sha512, md5 in any
\* letter case.
Unsupported(t) ==
    /\ cmd[t] = "calculate_hash"
    /\ to_lowercase(config[t].algorithm) \notin HashAlgorithms

\* C25: a calculate_hash with an unsupported algorithm name returns the
\* unsupported-algorithm error from its first step, before the file is
\* opened, and none of its steps changes the byte counter or the total.
C25_UnsupportedRejectedFirst ==
    [][\A t \in Tasks :
         (Unsupported(t) /\ pc'[t] # pc[t])
            => /\ result'[t] = Err("Unsupported algorithm") => pc[t] = "h_open"
               /\ progress' = progress
               /\ total_bytes' = total_bytes]_vars

\* C26: a verify_hash that succeeds returns the digest of the file as
\* hex::encode spells it, verified exactly when the expected digest spells
\* that digest in whatever letter case, and the expected digest as the caller
\* passed it; a calculate_hash that succeeds returns no expected digest.
C26_VerifyHash ==
    [][\A t \in Tasks :
         /\ (cmd[t] = "verify_hash" /\ result'[t].kind = "hash")
               => LET digest == HashUpdate(HashNew, FileData(config[t].path)) IN
                  /\ result'[t].hash = HexEncode(digest)
                  /\ result'[t].verified = (config[t].expected_hash[2] = digest)
                  /\ result'[t].expected = [some |-> config[t].expected_hash]
                  /\ result'[t].algorithm = config[t].algorithm
         /\ (cmd[t] = "calculate_hash" /\ result'[t].kind = "hash")
               => /\ result'[t].expected = None
                  /\ result'[t].verified]_vars

\* A verify_hash was given the digest of the image in capital letters and
\* returned it verified and unchanged.
C26_Witness ==
    \E t \in Tasks :
        /\ result[t].kind = "hash"
        /\ result[t].verified
        /\ result[t].expected = [some |-> <<"HEX", HashUpdate(HashNew, ImageData)>>]

\* The steps of the pipeline that do device or file I/O or run a tool.
IoSteps ==
    {"b_validate", "e_size", "e_open", "e_seek", "e_write", "e_sync",
     "w_open", "w_check", "w_write", "w_flush", "w_drop", "luks_format",
     "luks_addkey", "v_hash_img", "v_open_dev", "v_read", "b_sync"}

\* C27: the lock of the stage label is free in every state, so no step of
\* device or file I/O and no run of a tool is done with it held; a
\* get_burn_progress that has come to read the label can do so at once,
\* whatever the pipeline is doing.
C27_LabelLockNeverSpansIo ==
    /\ [](op_lock = NoHolder)
    /\ [](\A t \in Tasks : pc[t] \in IoSteps => op_lock # t)
    /\ [](pc[Poller] = "p_label" => ENABLED PollLabel(Poller))

\* A poll has returned the label of the write stage while the pipeline was
\* in the middle of writing.
C27_Witness ==
    /\ pc["t1"] = "w_write" /\ loc["t1"].bytes_written > 0
    /\ result[Poller].kind = "progress"
    /\ result[Poller].stage = OpWriting

\* The labels of the stage a burn_image is in at each step that can fail
\* (main.rs 316-410); a cancellation seen between two stages belongs to the
\* stage that has just ended.
FailStages(t) ==
    CASE pc[t] = "b_validate" -> {OpPreparing}
      [] pc[t] \in {"e_size", "e_open", "e_seek", "e_write", "e_sync"} -> {OpErasing}
      [] pc[t] \in {"w_open", "w_check", "w_write", "w_flush", "w_drop"}
           -> {OpWriting}
      [] pc[t] \in {"b_label_enc", "luks_format", "luks_addkey"} -> {OpEncrypting}
      [] pc[t] \in {"v_hash_img", "v_open_dev", "v_read"} -> {OpVerifying}
      [] pc[t] = "b_abort" ->
           {OpWriting} \cup (IF config[t].secure_erase_before
                             THEN {OpErasing} ELSE {OpPreparing})
      [] OTHER -> {}

\* The steps of a burn_image that write to the device.
DeviceWriteSteps == {"e_write", "w_write", "w_flush", "w_drop", "luks_format"}

\* C28: when an accepted burn_image returns an error or a cancellation, the
\* stage label is at that moment the label of the stage the run was in, and
\* the returning step puts nothing back on the device.
C28_FailureCarriesStage ==
    [][\A t \in Tasks :
         (Active(t) /\ result'[t].kind = "err")
            => /\ current_operation' \in FailStages(t)
               /\ pc[t] \notin DeviceWriteSteps => device' = device]_vars

C30_AeadRoundTrip ==
    \A t \in Tasks :
        /\ pc[t] \in {"a_decrypt", "a_assert"} =>
              LET blob == loc[t].encrypted.bytes
                  nonce == SubSeq(blob, 1, 12)
              IN /\ loc[t].encrypted.kind = "bytes"
                 /\ Len(blob) = 12 + Len(config[t].data) + TagLen
                 /\ nonce \in Nonces
                 /\ SubSeq(blob, 13, Len(blob))
                       = GcmEncrypt(config[t].key, nonce, config[t].data)
        /\ pc[t] = "a_assert" =>
              loc[t].decrypted = [kind |-> "bytes", bytes |-> config[t].data]
        /\ cmd[t] = "none" => result[t].kind # "panic"

\* The empty plaintext has gone round: the blob is the nonce and the tag.
C30_Witness ==
    \E t \in Tasks :
        /\ pc[t] = "a_assert"
        /\ config[t].data = << >>
        /\ Len(loc[t].encrypted.bytes) = 12 + TagLen
        /\ loc[t].decrypted = [kind |-> "bytes", bytes |-> << >>]

\* C31: decrypt_aes256gcm hands out bytes for the intact blob under its own
\* key only, and then the plaintext: a blob of less than 12 bytes is refused
\* as invalid, and a blob with one byte altered (of the nonce, the ciphertext
\* or the tag), or the blob under another key, fails to decrypt.
C31_DecryptRejectsInvalid ==
    \A t \in Tasks :
        pc[t] = "d_return" =>
            /\ config[t].how = "short" =>
                  loc[t].decrypted = Err("Invalid encrypted data")
            /\ config[t].how \in {"altered", "other_key"} =>
                  loc[t].decrypted = Err("Decryption failed")
            /\ loc[t].decrypted.kind = "bytes" =>
                  /\ config[t].how = "intact"
                  /\ loc[t].decrypted.bytes = config[t].data

\* A blob with a byte of its ciphertext altered, and one under another key,
\* have been refused.
C31_Witness ==
    \E t \in Tasks :
        /\ pc[t] = "d_return"
        /\ config[t].how = "altered"
        /\ Len(config[t].data) = MaxPlain
        /\ \E i \in (12 + 1)..(12 + MaxPlain) :
              config[t].encrypted[i]
                 # encrypt_aes256gcm(config[t].data, config[t].key,
                                     SubSeq(config[t].encrypted, 1, 12)).bytes[i]
        /\ loc[t].decrypted = Err("Decryption failed")

\* C32: whatever volume_size VeraCryptHeader::new is given, it returns a
\* header whose encrypted area starts at 131072 and whose length added to
\* the start gives volume_size within a u64, the length being no more than
\* volume_size.
C32_HeaderGeometry ==
    [][\A t \in Tasks :
         (pc[t] = "vc_new" /\ pc'[t] = "idle") =>
            /\ result'[t].kind = "header"
            /\ result'[t].volume_size = config[t].volume_size
            /\ result'[t].encrypted_area_start = U64(131072)
            /\ checked_add(result'[t].encrypted_area_start,
                           result'[t].encrypted_area_length)
                  = config[t].volume_size
            /\ ~U64Below(config[t].volume_size,
                         result'[t].encrypted_area_length)]_vars

\* C33: when an accepted burn_image returns, be it with success, with an
\* error of any stage or with the cancellation, the in-progress flag is
\* false.
C33_FlagReleasedOnReturn ==
    [][\A t \in Tasks :
         (Active(t) /\ pc'[t] = "idle") => ~is_burning']_vars

\* C34: a burn_image run during which cancel_burn set cancel_flag, after the
\* run had set the in-progress flag and before it had finished its write
\* stage, goes into no later stage and never reports success: what it
\* returns is an error.
C34_CancelNeverLost ==
    \A t \in Tasks :
        window_cancel[t] =>
            /\ result[t].kind # "ok"
            /\ pc[t] \notin {"b_label_enc", "luks_format", "luks_addkey",
                             "b_label_boot", "b_label_verify", "b_label_sync",
                             "b_sync", "b_clear", "b_complete"}

\* C35: a burn_image run writes the stage label only while the in-progress
\* flag is set, and the step by which a run that succeeds clears the flag
\* leaves the label at "Complete".
C35_LabelUnderFlag ==
    [][\A t \in Tasks :
         (cmd[t] = "burn_image" /\ pc'[t] # pc[t]) =>
            /\ current_operation' # current_operation => is_burning
            /\ (pc[t] = "b_clear" /\ ~is_burning') =>
                  current_operation' = OpComplete]_vars

\* The run is between the start of its erase stage and the first test of
\* cancel_flag in the write loop.
BeforeFirstChunk(t) ==
    /\ cmd[t] = "burn_image"
    /\ \/ pc[t] \in {"b_label_erase", "b_cancel1", "b_label_write", "w_open",
                      "b_abort"}
       \/ InErase(t)
       \/ pc[t] = "w_check" /\ loc[t].bytes_written = 0

C37_EraseCommandFrame ==
    [][\A t \in Tasks :
         (cmd[t] = "secure_erase" /\ (pc'[t] # pc[t] \/ loc'[t] # loc[t])) =>
            /\ UNCHANGED <<progress, total_bytes, current_operation,
                           cancel_flag>>
            /\ (pc'[t] = "idle" /\ pc[t] # "s_check") =>
                  /\ pc[t] = "s_clear"
                  /\ ~is_burning'
                  /\ result'[t] = loc[t].pending
                  /\ result'[t].kind = "err" => io_failed[t]
            /\ pc'[t] = "idle" => result'[t] # ErrCancelled]_vars

\* With a cancel request pending the erase has written the device through
\* and the command is about to release the flag and return success.
C37_Witness ==
    \E t \in Tasks :
        /\ cmd[t] = "secure_erase" /\ pc[t] = "s_clear"
        /\ cancel_flag /\ is_burning
        /\ touched[t] /\ ~io_failed[t]
        /\ loc[t].pending.kind # "err"

\* The method a name stands for.
NamedMethod(name) ==
    IF name = "zeros" THEN Zeros
    ELSE IF name = "random" THEN Random
    ELSE IF name = "dod" THEN DoD
    ELSE IF name = "gutmann" THEN Gutmann
    ELSE Zeros

\* The step goes into the erase engine with the passes of the method the
\* name stands for, which are those of no CustomRandom.
SelectsNamed(t, name) ==
    /\ pc'[t] = "e_size"
    /\ result'[t] = NoResult
    /\ loc'[t].passes = PassPlan(NamedMethod(name))
    /\ Len(loc'[t].passes) = passes(NamedMethod(name))
    /\ Len(loc'[t].passes) \in {1, 3, 35}
    /\ \A n \in 0..MaxCustom : loc'[t].passes # PassPlan(CustomRandom(n))

\* C38: whatever the name, the choice of the erase method rejects nothing:
\* burn_image and secure_erase both go on into the erase with the method
\* that zeros, random, dod or gutmann names, with Zeros for every other
\* name, and never with CustomRandom.
C38_EraseMethodSelection ==
    [][\A t \in Tasks :
         /\ (cmd[t] = "burn_image" /\ pc[t] = "b_label_erase"
                /\ pc'[t] # pc[t])
               => SelectsNamed(t, config[t].erase_method)
         /\ (cmd[t] = "secure_erase" /\ pc[t] = "s_set" /\ pc'[t] # pc[t])
               => SelectsNamed(t, config[t].method)]_vars

\* burn_image has taken the 35 passes of Gutmann for "gutmann" while
\* secure_erase has taken the one pass of Zeros for "DoD".
C38_Witness ==
    /\ cmd["t1"] = "burn_image" /\ pc["t1"] = "e_size"
    /\ config["t1"].erase_method = "gutmann"
    /\ Len(loc["t1"].passes) = 35
    /\ cmd["t2"] = "secure_erase" /\ pc["t2"] = "e_size"
    /\ config["t2"].method = "DoD"
    /\ loc["t2"].passes = PassPlan(Zeros)

\* The run is a burn_image with encryption enabled and of type veracrypt.
VeraCryptRun(t) ==
    /\ cmd[t] = "burn_image"
    /\ EncryptionEnabled(config[t])
    /\ config[t].encryption.encryption_type = "veracrypt"

\* C39: a burn_image with encryption enabled and encryption_type veracrypt
\* never returns success; once past its write stage uncancelled it goes into
\* the encryption stage, and there, the device holding the whole image, it
\* ends with the VeraCrypt error, the device left as it is; it is never in
\* the bootloader configuration, the verification or a later step.
C39_VeraCryptNeverCompletes ==
    [][\A t \in Tasks :
         VeraCryptRun(t) =>
            /\ pc'[t] \notin {"luks_format", "luks_addkey", "b_label_boot",
                              "b_label_verify", "v_hash_img", "v_open_dev",
                              "v_rst", "v_read", "v_progress", "b_label_sync",
                              "b_sync", "b_clear", "b_complete"}
            /\ result'[t].kind # "ok"
            /\ (pc[t] = "b_cancel2" /\ pc'[t] # pc[t] /\ ~cancel_flag)
                  => pc'[t] = "b_label_enc"
            /\ (pc[t] = "b_label_enc" /\ pc'[t] # pc[t]) =>
                  /\ pc'[t] = "idle"
                  /\ result'[t] = Err("VeraCrypt encryption requires veracrypt CLI")
                  /\ current_operation' = OpEncrypting
                  /\ loc[t].bytes_written = Len(FileData(config[t].image_path))
                  /\ SubSeq(device, 1, loc[t].bytes_written)
                        = FileData(config[t].image_path)
                  /\ device' = device]_vars

\* The whole image is on the device and the run is about to enter the
\* VeraCrypt setup.
C39_Witness ==
    \E t \in Tasks :
        /\ VeraCryptRun(t)
        /\ pc[t] = "b_label_enc"
        /\ config[t].verify_after_write
        /\ loc[t].bytes_written = ImageLen
        /\ SubSeq(device, 1, ImageLen) = ImageData

====
